---- MODULE Spec2Model ----
(***************************************************************************)
(* Device communication core of nuescan: the BBD203 motor driver (binary   *)
(* APT framing, receive pump, channel state, set-and-verify) and the       *)
(* Helios laser driver (set-and-verify, serialized writes).                *)
(*                                                                         *)
(* Conventions.  A byte string is a sequence of numbers 0..255.  A 32-bit  *)
(* status word is kept as the set of its set bit indices (bit k stands for *)
(* the mask 2^k), so that `status & MASK' is membership: the top bit,      *)
(* MOTOR_ENABLED = 0x80000000, exceeds the 32-bit integers of TLC.           *)
(* Every specification below shares the variables; each has its own Init   *)
(* and Next and leaves the variables of the other parts unchanged.         *)
(***************************************************************************)
EXTENDS Integers, Sequences, FiniteSets, TLC

VARIABLES
    \* ---- motor receive pump (BBD203Driver._receive_loop)
    sent,          \* the frames the device transmits, in order (ghost)
    pending,       \* bytes transmitted by the device and not yet read
    buffer,        \* the pump's local bytearray
    rxpc,          \* pump position: "poll" (loop head) or "parse" (inner while)
    dispatched,    \* messages handed to _process_message, in order (ghost)
    rxlast,        \* [n, msg]: how many messages were dispatched, and the last (ghost)
    \* ---- motor device state
    channels,      \* channel number -> BBD203Channel fields
    \* ---- motor connection and transport
    connected,     \* BBD203Driver._connected
    serial_open,   \* self._serial is set and is_open
    stop_thread,   \* the _stop_thread event
    wire,          \* the bytes written to the motor's serial line, in order
    \* ---- the calling thread
    callpc,        \* position of the caller inside the operation in progress
    call,          \* the operation in progress or last finished: name and arguments
    ret,           \* what the last finished operation returned
    snap,          \* the dictionary get_channel_status is building / has returned
    steps,         \* operations started and messages delivered so far
    \* ---- the thread that disconnects
    discpc,        \* "idle", "stopping" (inside disconnect) or "done"
    \* ---- the laser driver (HeliosDriver)
    l_connected,   \* HeliosDriver._connected
    l_serial_open, \* self._serial is set and is_open
    comm_lock,     \* holder of _comm_lock, "free" when not held
    l_wire,        \* the bytes written to the laser's serial line, in order
    l_cache,       \* the cached laser state (_laser_enabled, ...)
    l_pc,          \* per laser thread: its position inside the operation in progress
    l_call,        \* per laser thread: the operation in progress or last finished
    l_ret,         \* per laser thread: what its last finished operation returned
    \* ---- threads inside _send_command, byte by byte
    wr,            \* per writer thread: device, command and bytes written so far
    \* ---- the event callback registry and what the pump did with the last message
    move_complete_callbacks,  \* channel -> callbacks, in registration order
    home_complete_callbacks,  \* channel -> callbacks, in registration order
    invoked,       \* the calls <<callback, argument>> made for the last message (ghost)
    rxerr,         \* _process_message caught an exception on the last message (ghost)
    \* ---- the receive threads connect() has started, oldest first
    rx_threads,    \* per thread: position, local buffer (whole frames), read errors seen
    \* ---- stage settings (StageSettings), one Python process
    DEFAULT_SETTINGS,  \* the dictionaries the class attribute holds
    stores,        \* the StageSettings instances constructed so far, oldest first
    files,         \* path -> the text of the file, or "absent"
    \* ---- the two controllers at the far end of the serial lines (ghost)
    device         \* what they are doing, have read and have sent

pumpVars == <<sent, pending, buffer, rxpc, dispatched, rxlast>>
connVars == <<connected, serial_open, stop_thread, wire>>
callVars == <<callpc, call, ret, snap, steps>>
cbVars == <<move_complete_callbacks, home_complete_callbacks, invoked, rxerr>>
settingsVars == <<DEFAULT_SETTINGS, stores, files>>
laserVars == <<l_connected, l_serial_open, comm_lock, l_wire, l_cache, l_pc, l_call, l_ret>>

\* ------------------------------------------------------------------ bounds

\* Frames per transmitted stream.
MaxFrames == 2

\* Caller operations started plus frames delivered, per behaviour.
MaxSteps == 3

\* set_laser_enable calls the application makes, per behaviour.
MaxLaserCalls == 1

\* Commands handed to _send_command, per behaviour.
MaxWrites == 2

\* Laser operations called one after another, per behaviour.
MaxLaserOps == 2

\* The timeout of a blocking call, in sleep intervals of its wait loop.
TimeoutTicks == 2

\* Callbacks registered, per behaviour.
MaxCallbacks == 2

\* ------------------------------------------------------- protocol constants

MGMSG_MOD_GET_CHANENABLESTATE == 530    \* 0x0212
MGMSG_HW_DISCONNECT == 2                 \* 0x0002, not handled by the driver
MGMSG_HW_RESPONSE == 128                \* 0x0080
MGMSG_HW_GET_INFO == 6                  \* 0x0006
MGMSG_MOT_MOVE_HOMED == 1092            \* 0x0444
MGMSG_MOT_MOVE_COMPLETED == 1124        \* 0x0464
MGMSG_MOT_MOVE_STOPPED == 1126          \* 0x0466
MGMSG_MOT_GET_STATUSUPDATE == 1153      \* 0x0481
MGMSG_MOT_GET_VELPARAMS == 1045         \* 0x0415, not handled by the driver
MGMSG_MOD_IDENTIFY == 547               \* 0x0223
MGMSG_MOD_SET_CHANENABLESTATE == 528    \* 0x0210
MGMSG_HW_REQ_INFO == 5                  \* 0x0005
MGMSG_HW_START_UPDATEMSGS == 17         \* 0x0011
MGMSG_HW_STOP_UPDATEMSGS == 18          \* 0x0012
MGMSG_MOT_MOVE_HOME == 1091             \* 0x0443
MGMSG_MOT_MOVE_RELATIVE == 1096         \* 0x0448
MGMSG_MOT_MOVE_ABSOLUTE == 1107         \* 0x0453
MGMSG_MOT_MOVE_STOP == 1125             \* 0x0465
MGMSG_MOT_SET_VELPARAMS == 1043         \* 0x0413
MGMSG_MOT_REQ_STATUSUPDATE == 1152      \* 0x0480

\* Destination / source addresses.
DEST_USB == 80                          \* 0x50
CHANNEL_1 == 33                         \* 0x21
HOST == 1                               \* 0x01
ALL_CHANNELS == 17                      \* 0x11
ChannelDestBase == 32                   \* 0x20 in `dest - 0x20'

\* StatusBits, as bit indices: mask = 2^index.
FORWARD_LIMIT == 0                      \* 0x00000001
IN_MOTION_FORWARD == 4                  \* 0x00000010
IN_MOTION_REVERSE == 5                  \* 0x00000020
JOGGING_FORWARD == 6                    \* 0x00000040
JOGGING_REVERSE == 7                    \* 0x00000080
HOMING == 9                             \* 0x00000200
HOMED == 10                             \* 0x00000400
SETTLED == 13                           \* 0x00002000
MOTION_ERROR == 14                      \* 0x00004000
MOTOR_ENABLED == 31                     \* 0x80000000

\* Header size and the largest length field taken as a byte count.
HeaderLen == 6
MaxDataLen == 255
StatusUpdateLen == 20

\* Encoder resolution (counts per mm), the driver's default.
EncCnt == 20000

Channels == {1, 2, 3}

\* ------------------------------------------------------------ byte helpers

RECURSIVE Pow2(_)
Pow2(n) == IF n = 0 THEN 1 ELSE 2 * Pow2(n - 1)

\* Python slices s[:n] and s[n:], which never fail on a short sequence.
Take(s, n) == IF n >= Len(s) THEN s ELSE SubSeq(s, 1, n)
Drop(s, n) == IF n >= Len(s) THEN <<>> ELSE SubSeq(s, n + 1, Len(s))

\* struct '<H' and '<I' (little-endian), both directions.
PackU16(x) == <<x % 256, (x \div 256) % 256>>
PackU32(x) == <<x % 256, (x \div 256) % 256, (x \div 65536) % 256, (x \div 16777216) % 256>>
UnpackU16(b, at) == b[at] + 256 * b[at + 1]
UnpackU32(b, at) == b[at] + 256 * b[at + 1] + 65536 * b[at + 2] + 16777216 * b[at + 3]

\* The bits of one 32-bit little-endian word read at `at', as bit indices.
UnpackBits32(b, at) ==
    {8 * i + j : i \in 0..3, j \in 0..7} \cap
    {k \in 0..31 : (b[at + (k \div 8)] \div Pow2(k % 8)) % 2 = 1}

\* One byte of a status word given as bit indices.
BitsByte(S, i) ==
    LET w(j) == IF (8 * i + j) \in S THEN Pow2(j) ELSE 0
    IN  w(0) + w(1) + w(2) + w(3) + w(4) + w(5) + w(6) + w(7)
PackBits32(S) == <<BitsByte(S, 0), BitsByte(S, 1), BitsByte(S, 2), BitsByte(S, 3)>>

\* --------------------------------------------------------------- the codec

\* APTMessage.build_header_only: struct.pack('<HBBBB', ...)
build_header_only(msg_id, param1, param2, dest, source) ==
    PackU16(msg_id) \o <<param1, param2, dest, source>>

\* APTMessage.build_with_data: struct.pack('<HHBB', ...) + data
build_with_data(msg_id, dest, data, source) ==
    PackU16(msg_id) \o PackU16(Len(data)) \o <<dest, source>> \o data

\* (mutant) parse_header reading the length high byte first.
parse_header_BigEndian(data) ==
    [msg_id   |-> UnpackU16(data, 1),
     data_len |-> data[3] * 256 + data[4],
     dest     |-> data[5],
     source   |-> data[6]]

\* APTMessage.parse_header (callers pass at least 6 bytes).
parse_header(data) ==
    [msg_id   |-> UnpackU16(data, 1),
     data_len |-> data[4] * 256 + data[3],
     dest     |-> data[5],
     source   |-> data[6]]

\* APTMessage.parse_status_update: struct.unpack('<HIII', data[6:20]);
\* raises ValueError (ok = FALSE) on fewer than 20 bytes.
parse_status_update(data) ==
    IF Len(data) < StatusUpdateLen
    THEN [ok |-> FALSE]
    ELSE [ok        |-> TRUE,
          channel   |-> UnpackU16(data, 7),
          position  |-> UnpackU32(data, 9),
          enc_count |-> UnpackU32(data, 13),
          status    |-> UnpackBits32(data, 17)]

\* APTMessage.parse_channel_enable_state: (channel, enable_state == 0x01)
parse_channel_enable_state(data) ==
    [channel |-> data[4], enabled |-> (data[3] = 1)]

\* APTProtocol.apt_to_position: apt_units / enc_cnt, kept as the exact
\* fraction <<numerator, denominator>>.
apt_to_position(apt_units) == <<apt_units, EncCnt>>

\* ------------------------------------------------------- the channel model

\* BBD203Channel.__init__
InitChannel ==
    [enabled |-> FALSE, homed |-> FALSE, position_mm |-> <<0, 1>>,
     encoder_count |-> 0, status_bits |-> {}, moving |-> FALSE,
     homing |-> FALSE, error |-> FALSE]

\* The bits whose disjunction is `moving' in update_from_status.
MovingBits ==
    {IN_MOTION_FORWARD, IN_MOTION_REVERSE, JOGGING_FORWARD, JOGGING_REVERSE, HOMING}

\* (mutant) update_from_status taking `homed' from the HOMING bit.
update_from_status_HomedFromHoming(ch, position, encoder, status) ==
    [ch EXCEPT !.position_mm = apt_to_position(position),
               !.encoder_count = encoder,
               !.status_bits = status,
               !.homed = (HOMING \in status),
               !.homing = (HOMING \in status),
               !.enabled = (MOTOR_ENABLED \in status),
               !.error = (MOTION_ERROR \in status),
               !.moving = (status \cap MovingBits # {})]

\* BBD203Channel.update_from_status
update_from_status(ch, position, encoder, status) ==
    [ch EXCEPT !.position_mm = apt_to_position(position),
               !.encoder_count = encoder,
               !.status_bits = status,
               !.homed = (HOMED \in status),
               !.homing = (HOMING \in status),
               !.enabled = (MOTOR_ENABLED \in status),
               !.error = (MOTION_ERROR \in status),
               !.moving = (status \cap MovingBits # {})]

\* (mutant) is_ready without `and not self.error'.
is_ready_IgnoresError(ch) == ch.enabled /\ ch.homed

\* BBD203Channel.is_ready
is_ready(ch) == ch.enabled /\ ch.homed /\ ~ch.error

\* (mutant) the channel number taken modulo the number of channels.
ChannelOf_Wrapped(msg) == ((msg[5] - ChannelDestBase - 1) % 3) + 1

\* `channel_num = dest - 0x20' of a received message.
ChannelOf(msg) == msg[5] - ChannelDestBase

\* BBD203Driver._process_message: the channels after one dispatched message.
\* An exception inside the handler (a status update shorter than 20 bytes)
\* is caught and leaves the state as it was.
ProcessMessage(chs, msg_id, msg) ==
    LET n == ChannelOf(msg) IN
    IF msg_id = MGMSG_MOT_GET_STATUSUPDATE THEN
        LET p == parse_status_update(msg) IN
        IF p.ok /\ n \in DOMAIN chs
        THEN [chs EXCEPT ![n] = update_from_status(chs[n], p.position, p.enc_count, p.status)]
        ELSE chs
    ELSE IF msg_id = MGMSG_MOT_MOVE_COMPLETED THEN
        IF n \in DOMAIN chs THEN [chs EXCEPT ![n].moving = FALSE] ELSE chs
    ELSE IF msg_id = MGMSG_MOT_MOVE_HOMED THEN
        IF n \in DOMAIN chs
        THEN [chs EXCEPT ![n].homed = TRUE, ![n].homing = FALSE]
        ELSE chs
    ELSE IF msg_id = MGMSG_MOT_MOVE_STOPPED THEN
        IF n \in DOMAIN chs THEN [chs EXCEPT ![n].moving = FALSE] ELSE chs
    ELSE IF msg_id = MGMSG_MOD_GET_CHANENABLESTATE THEN
        IF n \in DOMAIN chs
        THEN [chs EXCEPT ![n].enabled = parse_channel_enable_state(msg).enabled]
        ELSE chs
    ELSE chs

\* ------------------------------------------------ the callback registry

\* The callbacks a program registers: one that returns and one that raises.
Callbacks == {"cb_a", "cb_raise"}
Raises(cb) == cb = "cb_raise"

\* _process_message, `self._move_complete_callbacks.get(channel_num, [])'
\* (likewise home): the list looped over for one message, empty for every
\* other message kind and for a destination that is not a channel.
CallbacksFor(mc, hc, msg_id, msg) ==
    LET n == ChannelOf(msg) IN
    IF n \notin Channels THEN <<>>
    ELSE IF msg_id = MGMSG_MOT_MOVE_COMPLETED THEN mc[n]
    ELSE IF msg_id = MGMSG_MOT_MOVE_HOMED THEN hc[n]
    ELSE <<>>

\* `for callback in ...: callback(channel_num)' inside the one try block of
\* _process_message: the calls made, in order, up to and including the
\* first callback that raises.
RECURSIVE RunCallbacks(_, _)
RunCallbacks(cbs, n) ==
    IF cbs = <<>> THEN <<>>
    ELSE <<[cb |-> Head(cbs), arg |-> n]>> \o
         (IF Raises(Head(cbs)) THEN <<>> ELSE RunCallbacks(Tail(cbs), n))

\* _process_message reaches `except Exception': a status update shorter
\* than 20 bytes (ValueError) or a callback that raises.
ProcessFails(mc, hc, msg_id, msg) ==
    \/ msg_id = MGMSG_MOT_GET_STATUSUPDATE /\ ~parse_status_update(msg).ok
    \/ LET cbs == CallbacksFor(mc, hc, msg_id, msg) IN
       \E i \in 1..Len(cbs) : Raises(cbs[i])

\* ------------------------------------------------------- the receive pump

\* Total length of the message at the head of a buffer of at least 6 bytes
\* (_receive_loop, `if data_len == 0 or data_len > 255').
MsgLen(buf) ==
    LET data_len == parse_header(buf).data_len IN
    IF data_len = 0 \/ data_len > MaxDataLen THEN HeaderLen ELSE HeaderLen + data_len

\* (mutant) the inner loop without `if len(buffer) < msg_len: break'.
CanExtract_NoLengthCheck(buf) == Len(buf) >= HeaderLen

\* The inner while loop can extract a message.
CanExtract(buf) == Len(buf) >= HeaderLen /\ Len(buf) >= MsgLen(buf)

\* What the device may transmit: header-only frames and data-bearing frames.
HeaderOnlyFrames ==
    {build_header_only(id, p1, p2, CHANNEL_1, DEST_USB) :
        id \in {MGMSG_MOT_MOVE_HOMED, MGMSG_MOD_GET_CHANENABLESTATE},
        p1 \in {0, 1}, p2 \in {0, 1}}

StatusPayload(position, encoder, status) ==
    PackU16(1) \o PackU32(position) \o PackU32(encoder) \o PackBits32(status)

DataFrames ==
    {build_with_data(MGMSG_MOT_GET_STATUSUPDATE, CHANNEL_1 + 1,
                     StatusPayload(7, 7, {HOMED, MOTOR_ENABLED}), DEST_USB),
     build_with_data(MGMSG_MOT_GET_VELPARAMS, CHANNEL_1, <<1>>, DEST_USB),
     build_with_data(MGMSG_MOT_MOVE_COMPLETED, CHANNEL_1, <<1, 0>>, DEST_USB)}

Frames == HeaderOnlyFrames \cup DataFrames

RECURSIVE Flatten(_)
Flatten(fs) == IF fs = <<>> THEN <<>> ELSE Head(fs) \o Flatten(Tail(fs))

FrameSeqs == UNION {[1..n -> Frames] : n \in 1..MaxFrames}

\* _receive_loop, `data = read(in_waiting); buffer.extend(data)': the bytes
\* that have arrived are any non-empty prefix of what the device transmitted.
RxRead ==
    /\ rxpc = "poll"
    /\ ~stop_thread
    /\ pending # <<>>
    /\ \E k \in 1..Len(pending) :
        /\ buffer' = buffer \o Take(pending, k)
        /\ pending' = Drop(pending, k)
    /\ rxpc' = "parse"
    /\ UNCHANGED <<device, settingsVars, rx_threads, cbVars, sent, dispatched, rxlast, channels, connVars, callVars, discpc, laserVars, wr>>

\* One iteration of `while len(buffer) >= 6' that extracts and dispatches.
RxDispatch ==
    /\ rxpc = "parse"
    /\ CanExtract(buffer)
    /\ LET msg == Take(buffer, MsgLen(buffer)) IN
        /\ buffer' = Drop(buffer, MsgLen(buffer))
        /\ dispatched' = Append(dispatched, msg)
        /\ rxlast' = [n |-> rxlast.n + 1, msg |-> msg]
        /\ channels' = ProcessMessage(channels, parse_header(buffer).msg_id, msg)
        /\ invoked' = RunCallbacks(CallbacksFor(move_complete_callbacks, home_complete_callbacks,
                                                parse_header(buffer).msg_id, msg), ChannelOf(msg))
        /\ rxerr' = ProcessFails(move_complete_callbacks, home_complete_callbacks,
                                 parse_header(buffer).msg_id, msg)
    /\ UNCHANGED <<device, settingsVars, rx_threads, move_complete_callbacks, home_complete_callbacks, sent, pending, rxpc,
                   connVars, callVars, discpc, laserVars, wr>>

\* The inner loop ends (fewer than 6 bytes) or breaks (incomplete message).
RxWait ==
    /\ rxpc = "parse"
    /\ ~CanExtract(buffer)
    /\ rxpc' = "poll"
    /\ UNCHANGED <<device, settingsVars, rx_threads, cbVars, sent, pending, buffer, dispatched, rxlast, channels, connVars, callVars, discpc, laserVars, wr>>

vars == <<pumpVars, channels, connVars, callVars, discpc, laserVars, wr, cbVars, rx_threads,
          settingsVars, device>>

NoCall == [name |-> "none"]

\* A receive thread as connect() starts it: at the head of its loop, its
\* local buffer empty.
RxThread == [pc |-> "loop", buf |-> <<>>, errors |-> 0]
NoSnap == [channel |-> 0]

\* The threads that use the laser driver: one calls set_laser_enable, one
\* calls disconnect.
LThreads == {"caller", "closer"}

\* The threads that write commands concurrently.
Writers == {"w1", "w2"}

NoWrite == [pc |-> "idle", dev |-> "none", cmd |-> <<>>, at |-> 0]

\* --------------------------------------------------------- stage settings

\* How many StageSettings operations one behaviour makes, and how many
\* instances it constructs.
MaxSettingsOps == 4
MaxStores == 2

Axes == {"x_axis", "y_axis", "z_axis"}

\* The settings files: one in a directory, one named without a directory.
Paths == {"/tmp/stage.json", "stage.json"}

\* os.path.dirname
dirname(path) == IF path = "/tmp/stage.json" THEN "/tmp" ELSE ""

\* A Python number, in tenths: the float 1.5 is PyFloat(15), the int 2 is
\* PyInt(2).  Python compares numbers by value: 2 == 2.0.
PyFloat(tenths) == [v |-> tenths, float |-> TRUE]
PyInt(n) == [v |-> 10 * n, float |-> FALSE]
NumEq(a, b) == a.v = b.v

\* StageSettings.DEFAULT_SETTINGS as the class statement leaves it.
DefaultTrigger ==
    [mode |-> PyInt(0), polarity |-> PyInt(1),
     start_pos_fwd |-> PyFloat(0), start_pos_rev |-> PyFloat(0),
     interval_fwd |-> PyFloat(0), interval_rev |-> PyFloat(0)]
ClassDefaults ==
    [velocity     |-> [a \in Axes |-> PyFloat(10)],
     acceleration |-> [a \in Axes |-> PyFloat(50)],
     trigger      |-> [a \in Axes |-> DefaultTrigger],
     digital_io   |-> [output_bits |-> PyInt(0)]]

\* `self.DEFAULT_SETTINGS.copy()': dict.copy() is shallow, the new dictionary
\* holds the same four dictionaries the class attribute holds.  An entry of
\* `settings' is therefore the key of the class dictionary it refers to.
ShallowCopy == [k \in DOMAIN ClassDefaults |-> k]

NoFile == [state |-> "absent", doc |-> <<>>, saved |-> <<>>]

\* The controllers when the program connects: every stage enabled, homed in
\* an earlier session and at rest, the laser off, nothing read or sent.
InitDevice ==
    [motion   |-> [c \in Channels |-> "idle"],
     homed    |-> [c \in Channels |-> TRUE],
     read     |-> 0,
     out      |-> <<>>,
     laser_on |-> FALSE,
     l_read   |-> 0,
     l_in     |-> <<>>]

\* The class is loaded, nothing is constructed, no settings file exists.
InitSettings ==
    /\ DEFAULT_SETTINGS = ClassDefaults
    /\ stores = <<>>
    /\ files = [p \in Paths |-> NoFile]

\* HeliosDriver.__init__ and a successful connect(): port open, lock free.
InitLaser ==
    /\ l_connected = TRUE
    /\ l_serial_open = TRUE
    /\ comm_lock = "free"
    /\ l_wire = <<>>
    /\ l_cache = [laser_enabled |-> FALSE, frequency_hz |-> <<10000, 1>>,
                  current_ma |-> 500, status |-> 0]
    /\ l_pc = [t \in LThreads |-> "idle"]
    /\ l_call = [t \in LThreads |-> NoCall]
    /\ l_ret = [t \in LThreads |-> "none"]

\* The driver after connect(): pump running, port open, nothing received.
InitConnected ==
    /\ buffer = <<>>
    /\ rxpc = "poll"
    /\ dispatched = <<>>
    /\ rxlast = [n |-> 0, msg |-> <<>>]
    /\ channels = [n \in Channels |-> InitChannel]
    /\ connected = TRUE
    /\ serial_open = TRUE
    /\ stop_thread = FALSE
    /\ wire = <<>>
    /\ callpc = "idle"
    /\ call = NoCall
    /\ ret = "none"
    /\ snap = NoSnap
    /\ steps = 0
    /\ discpc = "idle"
    /\ wr = [t \in Writers |-> NoWrite]
    /\ move_complete_callbacks = [n \in Channels |-> <<>>]
    /\ home_complete_callbacks = [n \in Channels |-> <<>>]
    /\ invoked = <<>>
    /\ rxerr = FALSE
    /\ rx_threads = <<RxThread>>
    /\ InitLaser
    /\ InitSettings
    /\ device = InitDevice

InitPump ==
    /\ sent \in FrameSeqs
    /\ pending = Flatten(sent)
    /\ InitConnected

NextPump == RxRead \/ RxDispatch \/ RxWait

SpecPump == InitPump /\ [][NextPump]_vars

\* ------------------------------------------------------ command builders

\* ------------------------------------------------- double precision floats

\* Python floats are IEEE-754 doubles: 53 significant bits, every result
\* rounded to the nearest double, a tie to the even one. A positive double is
\* held as [m, e]: the bits m, most significant first, the last one of
\* weight 2^e.
MantissaBits == 53

\* What is left of num / den after i base-1024 digits of its fraction.
RECURSIVE FracRem(_, _, _)
FracRem(num, den, i) ==
    IF i = 0 THEN num % den ELSE (FracRem(num, den, i - 1) * 1024) % den

\* The binary expansion of num / den (num below 2^31, den below 2^21): 31
\* bits of the whole part, then 80 bits of the fraction.
Expansion(num, den) ==
    LET digit == [i \in 1..8 |-> (FracRem(num, den, i - 1) * 1024) \div den] IN
    [j \in 1..111 |->
        IF j <= 31 THEN ((num \div den) \div Pow2(31 - j)) % 2
        ELSE (digit[(j - 32) \div 10 + 1] \div Pow2(9 - ((j - 32) % 10))) % 2]

\* m + 1 on bits
IncBits(m) ==
    LET n == Len(m)
        t == CHOOSE t \in 0..n : /\ \A i \in (n - t + 1)..n : m[i] = 1
                                 /\ t = n \/ m[n - t] = 0
    IN  IF t = n THEN <<1>> \o [i \in 1..n |-> 0]
        ELSE [i \in 1..n |-> IF i < n - t THEN m[i] ELSE IF i = n - t THEN 1 ELSE 0]

\* The number with the given bits, bit j of weight 2^(w - j), and something more
\* below them when `more', rounded to 53 significant bits.
RoundDouble(bits, w, more) ==
    LET S == SubSeq(bits, 1, Len(bits))
        a == CHOOSE i \in 1..Len(S) : S[i] = 1 /\ \A j \in 1..(i - 1) : S[j] = 0
        z == a + MantissaBits - 1
    IN  IF z >= Len(S) THEN [m |-> SubSeq(S, a, Len(S)), e |-> w - Len(S)]
        ELSE LET m == SubSeq(S, a, z)
                 sticky == more \/ \E j \in (z + 2)..Len(S) : S[j] = 1
                 up == S[z + 1] = 1 /\ (sticky \/ S[z] = 1)
             IN  [m |-> IF up THEN IncBits(m) ELSE m, e |-> w - z]

\* The double nearest to num / den (num > 0): what the literal 0.043, or
\* float("0.043"), is.
ToDouble(num, den) == RoundDouble(Expansion(num, den), 31, FracRem(num, den, 8) # 0)

\* The bit of weight 2^p of the whole number with the bits m.
BitAt(m, p) == IF p < Len(m) THEN m[Len(m) - p] ELSE 0

\* Bits 15 i + k .. 15 i + 14 of m as a number: for k = 0 its i-th limb.
RECURSIVE Limb(_, _, _)
Limb(m, i, k) == IF k = 15 THEN 0 ELSE BitAt(m, 15 * i + k) + 2 * Limb(m, i, k + 1)

\* m * k limb by limb: the carry into limb i, and limb i of the product.
RECURSIVE MulCarry(_, _, _)
MulCarry(m, k, i) ==
    IF i = 0 THEN 0 ELSE (Limb(m, i - 1, 0) * k + MulCarry(m, k, i - 1)) \div 32768
MulLimb(m, k, i) == (Limb(m, i, 0) * k + MulCarry(m, k, i)) % 32768

\* x * k for a double x and a whole number k below 2^15: the exact product
\* (75 bits), rounded.
FloatMul(x, k) ==
    LET prod == <<MulLimb(x.m, k, 0), MulLimb(x.m, k, 1), MulLimb(x.m, k, 2),
                  MulLimb(x.m, k, 3), MulLimb(x.m, k, 4)>>
    IN  RoundDouble([j \in 1..75 |->
                        (prod[(75 - j) \div 15 + 1] \div Pow2((75 - j) % 15)) % 2],
                    x.e + 75, FALSE)

RECURSIVE BitsValue(_)
BitsValue(b) ==
    IF b = <<>> THEN 0 ELSE 2 * BitsValue(SubSeq(b, 1, Len(b) - 1)) + b[Len(b)]

\* int(x) for a positive double below 2^31: the fraction is cut off.
FloatToInt(x) ==
    IF x.e >= 0 THEN BitsValue(x.m) * Pow2(x.e)
    ELSE IF Len(x.m) + x.e <= 0 THEN 0
    ELSE BitsValue(SubSeq(x.m, 1, Len(x.m) + x.e))

\* `dest = Destination.CHANNEL_1 + (channel - 1)'
ChanDest(c) == CHANNEL_1 + (c - 1)

\* int(x) of a quotient: truncation towards zero.
TruncDiv(a, b) == IF a >= 0 THEN a \div b ELSE -((-a) \div b)

\* APTProtocol.position_to_apt: int(pos_mm * enc_cnt) for the position
\* pos_mm = <<num, den>>, the decimal num / den mm. The position is a double,
\* the product is rounded to a double, and int() cuts its fraction off.
position_to_apt(pos_mm) ==
    LET counts(n) == FloatToInt(FloatMul(ToDouble(n, pos_mm[2]), EncCnt)) IN
    IF pos_mm[1] = 0 THEN 0
    ELSE IF pos_mm[1] > 0 THEN counts(pos_mm[1])
    ELSE 0 - counts(0 - pos_mm[1])

\* APTProtocol.velocity_to_apt: int(enc_cnt * T_SAMPLE * 65536 * vel) with
\* T_SAMPLE = 102.4e-6, for whole vel (mm/s) up to 15.
velocity_to_apt(vel) == TruncDiv(((EncCnt * 1024) \div 10000) * 65536 * vel, 1000)

\* APTProtocol.accel_to_apt: int(enc_cnt * T_SAMPLE^2 * 65536 * accel); at
\* 20000 counts/mm the factor is 2^27 / 5^10, for whole accel up to 15.
accel_to_apt(accel) == TruncDiv(134217728 * accel, 9765625)

cmd_identify(c) == build_header_only(MGMSG_MOD_IDENTIFY, 0, 0, ChanDest(c), HOST)
cmd_enable_channel(c, enable) ==
    build_header_only(MGMSG_MOD_SET_CHANENABLESTATE, IF enable THEN 1 ELSE 2, 1,
                      ChanDest(c), HOST)
cmd_start_update_msgs == build_header_only(MGMSG_HW_START_UPDATEMSGS, 0, 0, ALL_CHANNELS, HOST)
cmd_stop_update_msgs == build_header_only(MGMSG_HW_STOP_UPDATEMSGS, 0, 0, ALL_CHANNELS, HOST)
cmd_req_hw_info == build_header_only(MGMSG_HW_REQ_INFO, 0, 0, DEST_USB, HOST)
cmd_move_home(c) == build_header_only(MGMSG_MOT_MOVE_HOME, 1, 0, ChanDest(c), HOST)
cmd_move_absolute(c, pos_mm) ==
    build_with_data(MGMSG_MOT_MOVE_ABSOLUTE, ChanDest(c),
                    PackU16(1) \o PackU32(position_to_apt(pos_mm)), HOST)
cmd_move_relative(c, dist_mm) ==
    build_with_data(MGMSG_MOT_MOVE_RELATIVE, ChanDest(c),
                    PackU16(1) \o PackU32(position_to_apt(dist_mm)), HOST)
cmd_move_stop(c, immediate) ==
    build_header_only(MGMSG_MOT_MOVE_STOP, 1, IF immediate THEN 1 ELSE 2, ChanDest(c), HOST)
cmd_set_velocity_params(c, vel, accel) ==
    build_with_data(MGMSG_MOT_SET_VELPARAMS, ChanDest(c),
                    PackU16(1) \o PackU32(0) \o PackU32(velocity_to_apt(vel))
                        \o PackU32(accel_to_apt(accel)), HOST)
cmd_req_status_update(c) ==
    build_header_only(MGMSG_MOT_REQ_STATUSUPDATE, 1, 0, ChanDest(c), HOST)

\* ------------------------------------------------ connection and sending

\* BBD203Driver.is_connected
is_connected == connected /\ serial_open

\* BBD203Driver._send_command: its result and the wire after it.  `wok' is
\* FALSE when serial.write raises SerialException.
SendOk(wok) == is_connected /\ wok
SendWire(w, cmd, wok) == IF SendOk(wok) THEN w \o cmd ELSE w

Bool(b) == IF b THEN "True" ELSE "False"

\* A caller may start an operation.
CallerIdle == callpc = "idle" /\ steps < MaxSteps

\* The operation described by `rec' ends, returning r.
Return(rec, r) ==
    /\ callpc' = "idle"
    /\ call' = rec
    /\ ret' = r

\* An operation on channel c begins.
Begin(name, c) == [name |-> name, ch |-> c]

\* --------------------------------------------- motor caller operations

\* home_channel, `self.channels[channel].homing = True; ...homed = False'
home_channel_flags(ch) == [ch EXCEPT !.homing = TRUE, !.homed = FALSE]

\* move_absolute / move_relative, `self.channels[channel].moving = True'
move_flags(ch) == [ch EXCEPT !.moving = TRUE]

\* BBD203Driver.home_channel(channel, wait=False)
HomeChannel(c, wok) ==
    /\ CallerIdle
    /\ steps' = steps + 1
    /\ IF c \notin Channels
       THEN /\ Return(Begin("home_channel", c), "False")
            /\ UNCHANGED <<channels, wire>>
       ELSE /\ channels' = [channels EXCEPT ![c] = home_channel_flags(@)]
            /\ wire' = SendWire(wire, cmd_move_home(c), wok)
            /\ Return(Begin("home_channel", c), Bool(SendOk(wok)))
    /\ UNCHANGED <<device, settingsVars, rx_threads, cbVars, pumpVars, connected, serial_open, stop_thread, snap, discpc, laserVars, wr>>

\* BBD203Driver.home_all_channels(wait=False): home_channel on every
\* enabled channel, in order; w[c] is FALSE when the write for c raises.
HomeAllChannels(w) ==
    LET en(c) == channels[c].enabled
        w1 == IF en(1) THEN SendWire(wire, cmd_move_home(1), w[1]) ELSE wire
        w2 == IF en(2) THEN SendWire(w1, cmd_move_home(2), w[2]) ELSE w1
        w3 == IF en(3) THEN SendWire(w2, cmd_move_home(3), w[3]) ELSE w2
    IN
    /\ CallerIdle
    /\ steps' = steps + 1
    /\ channels' = [c \in Channels |->
                        IF en(c) THEN home_channel_flags(channels[c]) ELSE channels[c]]
    /\ wire' = w3
    /\ Return(Begin("home_all_channels", 0),
              Bool(\A c \in Channels : en(c) => SendOk(w[c])))
    /\ UNCHANGED <<device, settingsVars, rx_threads, cbVars, pumpVars, connected, serial_open, stop_thread, snap, discpc, laserVars, wr>>

\* (mutant) move_absolute / move_relative without the is_ready() check.
Move_NoReadyCheck(name, c, cmd, wok) ==
    /\ CallerIdle
    /\ steps' = steps + 1
    /\ IF c \notin Channels
       THEN /\ Return(Begin(name, c), "False")
            /\ UNCHANGED <<channels, wire>>
       ELSE /\ channels' = [channels EXCEPT ![c] = move_flags(@)]
            /\ wire' = SendWire(wire, cmd, wok)
            /\ Return(Begin(name, c), Bool(SendOk(wok)))
    /\ UNCHANGED <<device, settingsVars, rx_threads, cbVars, pumpVars, connected, serial_open, stop_thread, snap, discpc, laserVars, wr>>

\* The part move_absolute and move_relative share.
Move(name, c, cmd, wok) ==
    /\ CallerIdle
    /\ steps' = steps + 1
    /\ IF c \notin Channels \/ ~is_ready(channels[c])
       THEN /\ Return(Begin(name, c), "False")
            /\ UNCHANGED <<channels, wire>>
       ELSE /\ channels' = [channels EXCEPT ![c] = move_flags(@)]
            /\ wire' = SendWire(wire, cmd, wok)
            /\ Return(Begin(name, c), Bool(SendOk(wok)))
    /\ UNCHANGED <<device, settingsVars, rx_threads, cbVars, pumpVars, connected, serial_open, stop_thread, snap, discpc, laserVars, wr>>

\* BBD203Driver.move_absolute(channel, position_mm, wait=False)
MoveAbsolute(c, pos_mm, wok) ==
    Move("move_absolute", c, IF c \in Channels THEN cmd_move_absolute(c, pos_mm) ELSE <<>>, wok)

\* BBD203Driver.move_relative(channel, distance_mm, wait=False)
MoveRelative(c, dist_mm, wok) ==
    Move("move_relative", c, IF c \in Channels THEN cmd_move_relative(c, dist_mm) ELSE <<>>, wok)

\* BBD203Driver.stop(channel, immediate): channel 0 stops all three.
Stop(c, immediate, w) ==
    LET one(wi, ch) == SendWire(wi, cmd_move_stop(ch, immediate), w[ch]) IN
    /\ CallerIdle
    /\ steps' = steps + 1
    /\ IF c = 0
       THEN /\ wire' = one(one(one(wire, 1), 2), 3)
            /\ Return(Begin("stop", c), Bool(\A ch \in Channels : SendOk(w[ch])))
       ELSE IF c \notin Channels
       THEN /\ Return(Begin("stop", c), "False")
            /\ UNCHANGED wire
       ELSE /\ wire' = one(wire, c)
            /\ Return(Begin("stop", c), Bool(SendOk(w[c])))
    /\ UNCHANGED <<device, settingsVars, rx_threads, cbVars, pumpVars, channels, connected, serial_open, stop_thread, snap, discpc, laserVars, wr>>

\* BBD203Driver.identify(channel): no check of the channel number.
Identify(c, wok) ==
    /\ CallerIdle
    /\ steps' = steps + 1
    /\ wire' = SendWire(wire, cmd_identify(c), wok)
    /\ Return(Begin("identify", c), Bool(SendOk(wok)))
    /\ UNCHANGED <<device, settingsVars, rx_threads, cbVars, pumpVars, channels, connected, serial_open, stop_thread, snap, discpc, laserVars, wr>>

\* BBD203Driver.request_status_update(channel)
RequestStatusUpdate(c, wok) ==
    /\ CallerIdle
    /\ steps' = steps + 1
    /\ IF c \notin Channels
       THEN /\ Return(Begin("request_status_update", c), "False")
            /\ UNCHANGED wire
       ELSE /\ wire' = SendWire(wire, cmd_req_status_update(c), wok)
            /\ Return(Begin("request_status_update", c), Bool(SendOk(wok)))
    /\ UNCHANGED <<device, settingsVars, rx_threads, cbVars, pumpVars, channels, connected, serial_open, stop_thread, snap, discpc, laserVars, wr>>

\* BBD203Driver.set_velocity_params, up to the first sleep: the set command.
SetVelocityParams(c, vel, accel, wok) ==
    /\ CallerIdle
    /\ steps' = steps + 1
    /\ IF c \notin Channels
       THEN /\ Return(Begin("set_velocity_params", c), "False")
            /\ UNCHANGED wire
       ELSE /\ wire' = SendWire(wire, cmd_set_velocity_params(c, vel, accel), wok)
            /\ IF SendOk(wok)
               THEN /\ callpc' = "vel_request"
                    /\ call' = Begin("set_velocity_params", c)
                    /\ UNCHANGED ret
               ELSE Return(Begin("set_velocity_params", c), "False")
    /\ UNCHANGED <<device, settingsVars, rx_threads, cbVars, pumpVars, channels, connected, serial_open, stop_thread, snap, discpc, laserVars, wr>>

\* set_velocity_params after the sleep: the status request, then True.
SetVelocityRequest(wok) ==
    /\ callpc = "vel_request"
    /\ wire' = SendWire(wire, cmd_req_status_update(call.ch), wok)
    /\ Return(call, "True")
    /\ UNCHANGED <<device, settingsVars, rx_threads, cbVars, pumpVars, channels, connected, serial_open, stop_thread, snap, steps, discpc, laserVars, wr>>

\* BBD203Driver.get_channel_status: the dictionary display reads the fields
\* one after another with no lock; the entries up to 'error' are read here.
\* Ghost fields of the call: rx0 and rx1 are the numbers of messages the pump
\* had dispatched when the first and the last entry were read.
SnapshotBegin(c) ==
    /\ CallerIdle
    /\ steps' = steps + 1
    /\ IF c \notin Channels
       THEN /\ Return(Begin("get_channel_status", c), "None")
            /\ snap' = NoSnap
       ELSE /\ callpc' = "snap_ready"
            /\ call' = [name |-> "get_channel_status", ch |-> c,
                        rx0 |-> rxlast.n, rx1 |-> rxlast.n]
            /\ snap' = [channel |-> c,
                        enabled |-> channels[c].enabled,
                        homed   |-> channels[c].homed,
                        homing  |-> channels[c].homing,
                        moving  |-> channels[c].moving,
                        error   |-> channels[c].error]
            /\ UNCHANGED ret
    /\ UNCHANGED <<device, settingsVars, rx_threads, cbVars, pumpVars, channels, connVars, discpc, laserVars, wr>>

\* The dictionary with the entries of the first part and those read now.
SnapshotDict(first, ch) ==
    [channel       |-> first.channel,
     enabled       |-> first.enabled,
     homed         |-> first.homed,
     homing        |-> first.homing,
     moving        |-> first.moving,
     error         |-> first.error,
     ready         |-> is_ready(ch),
     position_mm   |-> ch.position_mm,
     encoder_count |-> ch.encoder_count,
     status_bits   |-> ch.status_bits]

\* get_channel_status, the rest: 'ready': ch.is_ready(), position, encoder,
\* status bits, and the return.
SnapshotEnd ==
    /\ callpc = "snap_ready"
    /\ snap' = SnapshotDict(snap, channels[call.ch])
    /\ Return([call EXCEPT !.rx1 = rxlast.n], "dict")
    /\ UNCHANGED <<device, settingsVars, rx_threads, cbVars, pumpVars, channels, connVars, steps, discpc, laserVars, wr>>

\* ------------------------------------------- motor set-and-verify (enable)

\* `retries: int = 3'
Retries == 3

\* BBD203Driver.enable_channel: the channel check, then _set_and_verify_enable.
\* Ghost fields of the call: `sets' counts the set commands written, `obs'
\* lists the values compared with the expected one, `cut' says that the
\* port was closed while the call was in progress, `late' counts the writes
\* made after that, `w0' is the length of the wire when the call began.
EnableChannel(c, enable) ==
    /\ CallerIdle
    /\ steps' = steps + 1
    /\ IF c \notin Channels
       THEN Return(Begin("enable_channel", c), "False")
       ELSE /\ callpc' = "sv_send"
            /\ call' = [name |-> "enable_channel", ch |-> c, enable |-> enable,
                        attempt |-> 0, sets |-> 0, obs |-> <<>>, cut |-> FALSE,
                        late |-> 0, w0 |-> Len(wire)]
            /\ UNCHANGED ret
    /\ UNCHANGED <<device, settingsVars, rx_threads, cbVars, pumpVars, channels, connVars, snap, discpc, laserVars, wr>>

\* (mutant) a loop that runs `range(retries + 1)'.
NextAttempt_OneMore(rec, sendpc) ==
    IF rec.attempt + 1 <= Retries
    THEN /\ callpc' = sendpc
         /\ call' = [rec EXCEPT !.attempt = @ + 1]
         /\ UNCHANGED ret
    ELSE Return([rec EXCEPT !.attempt = @ + 1], "False")

\* The loop moves to its next attempt, or ends in failure after the last.
NextAttempt(rec, sendpc) ==
    IF rec.attempt + 1 < Retries
    THEN /\ callpc' = sendpc
         /\ call' = [rec EXCEPT !.attempt = @ + 1]
         /\ UNCHANGED ret
    ELSE Return([rec EXCEPT !.attempt = @ + 1], "False")

\* _set_and_verify_enable: `if not self._send_command(cmd): continue'
SvSend(wok) ==
    /\ callpc = "sv_send"
    /\ wire' = SendWire(wire, cmd_enable_channel(call.ch, call.enable), wok)
    /\ IF SendOk(wok)
       THEN /\ callpc' = "sv_request"
            /\ call' = [call EXCEPT !.sets = @ + 1,
                                    !.late = IF call.cut THEN @ + 1 ELSE @]
            /\ UNCHANGED ret
       ELSE NextAttempt(call, "sv_send")
    /\ UNCHANGED <<device, settingsVars, rx_threads, cbVars, pumpVars, channels, connected, serial_open, stop_thread, snap, steps, discpc, laserVars, wr>>

\* _set_and_verify_enable: after the sleep, `self.request_status_update(channel)'
\* (its result is not looked at).
SvRequest(wok) ==
    /\ callpc = "sv_request"
    /\ wire' = SendWire(wire, cmd_req_status_update(call.ch), wok)
    /\ callpc' = "sv_check"
    /\ call' = [call EXCEPT !.late = IF call.cut /\ SendOk(wok) THEN @ + 1 ELSE @]
    /\ UNCHANGED <<device, settingsVars, rx_threads, cbVars, pumpVars, channels, connected, serial_open, stop_thread, ret, snap, steps, discpc, laserVars, wr>>

\* _set_and_verify_enable: after the sleep, the comparison with the cached flag.
SvCheck ==
    /\ callpc = "sv_check"
    /\ LET seen == channels[call.ch].enabled
           rec == [call EXCEPT !.obs = Append(@, seen)]
       IN  IF seen = call.enable
           THEN Return(rec, "True")
           ELSE NextAttempt(rec, "sv_send")
    /\ UNCHANGED <<device, settingsVars, rx_threads, cbVars, pumpVars, channels, connVars, snap, steps, discpc, laserVars, wr>>

\* ---------------------------------------------------------- disconnect

\* BBD203Driver.disconnect up to its sleep: the stop-updates command.
DisconnectBegin(wok) ==
    /\ discpc = "idle"
    /\ connected
    /\ wire' = SendWire(wire, cmd_stop_update_msgs, wok)
    /\ discpc' = "stopping"
    /\ UNCHANGED <<device, settingsVars, rx_threads, cbVars, pumpVars, channels, connected, serial_open, stop_thread, callVars, laserVars, wr>>

\* disconnect, the rest: the stop flag, the join (the pump leaves at its loop
\* head), the port closed, _connected cleared.
DisconnectEnd ==
    /\ discpc = "stopping"
    /\ rxpc = "poll"
    /\ stop_thread' = TRUE
    /\ serial_open' = FALSE
    /\ connected' = FALSE
    /\ discpc' = "done"
    /\ call' = IF callpc \in {"sv_send", "sv_request", "sv_check"}
               THEN [call EXCEPT !.cut = TRUE] ELSE call
    /\ UNCHANGED <<device, settingsVars, rx_threads, cbVars, pumpVars, channels, wire, callpc, ret, snap, steps, laserVars, wr>>

\* ------------------------------------------- the channel specification

\* Status words the device reports.
StatusInputs ==
    {{HOMED, MOTOR_ENABLED},
     {HOMED, MOTOR_ENABLED, IN_MOTION_FORWARD},
     {MOTOR_ENABLED, HOMING, IN_MOTION_REVERSE},
     {HOMED, MOTOR_ENABLED, MOTION_ERROR, SETTLED},
     {HOMED, JOGGING_REVERSE, FORWARD_LIMIT}}

\* Destination bytes of received frames: two channels and one other address.
RxDests == {CHANNEL_1, CHANNEL_1 + 1, DEST_USB}

\* Channel arguments of caller operations: two channels and one that is none.
CallChannels == {1, 4}

StatusFrame(dest, position, status) ==
    build_with_data(MGMSG_MOT_GET_STATUSUPDATE, dest,
                    StatusPayload(position, position, status), DEST_USB)

\* Frames of the kinds _process_message handles.
ChanFrames ==
    {StatusFrame(d, 200000, S) : d \in RxDests, S \in StatusInputs}
    \cup {build_with_data(id, d, StatusPayload(200000, 200000, {HOMED, MOTOR_ENABLED}), DEST_USB) :
            id \in {MGMSG_MOT_MOVE_COMPLETED, MGMSG_MOT_MOVE_STOPPED}, d \in RxDests}
    \cup {build_header_only(MGMSG_MOT_MOVE_HOMED, 0, 0, d, DEST_USB) : d \in RxDests}
    \cup {build_header_only(MGMSG_MOD_GET_CHANENABLESTATE, p1, 1, d, DEST_USB) :
            p1 \in {1, 2}, d \in RxDests}

\* _receive_loop on a frame that arrives whole into an empty buffer and that
\* the loop takes for one message: read, extract, dispatch, back to polling.
RxDeliver(frame) ==
    /\ steps < MaxSteps
    /\ rxpc = "poll"
    /\ ~stop_thread
    /\ serial_open
    /\ buffer = <<>>
    /\ CanExtract(frame)
    /\ MsgLen(frame) = Len(frame)
    /\ steps' = steps + 1
    /\ rxlast' = [n |-> rxlast.n + 1, msg |-> frame]
    /\ channels' = ProcessMessage(channels, parse_header(frame).msg_id, frame)
    /\ invoked' = RunCallbacks(CallbacksFor(move_complete_callbacks, home_complete_callbacks,
                                            parse_header(frame).msg_id, frame), ChannelOf(frame))
    /\ rxerr' = ProcessFails(move_complete_callbacks, home_complete_callbacks,
                             parse_header(frame).msg_id, frame)
    /\ UNCHANGED <<device, settingsVars, rx_threads, move_complete_callbacks, home_complete_callbacks, sent, pending, buffer, rxpc,
                   dispatched, connVars, callpc, call, ret, snap, discpc, laserVars, wr>>

InitChan ==
    /\ sent = <<>>
    /\ pending = <<>>
    /\ InitConnected

NextChan ==
    \/ \E f \in ChanFrames : RxDeliver(f)
    \/ \E c \in CallChannels, wok \in BOOLEAN : HomeChannel(c, wok)
    \/ \E w \in [Channels -> BOOLEAN] : HomeAllChannels(w)
    \/ \E c \in CallChannels, wok \in BOOLEAN : MoveAbsolute(c, <<10, 1>>, wok)
    \/ \E c \in CallChannels, wok \in BOOLEAN : MoveRelative(c, <<1, 2>>, wok)
    \/ \E c \in CallChannels \cup {0}, w \in [Channels -> BOOLEAN] : Stop(c, TRUE, w)
    \/ \E c \in CallChannels, wok \in BOOLEAN : Identify(c, wok)
    \/ \E c \in CallChannels, wok \in BOOLEAN : RequestStatusUpdate(c, wok)
    \/ \E c \in CallChannels, wok \in BOOLEAN : SetVelocityParams(c, 1, 5, wok)
    \/ \E wok \in BOOLEAN : SetVelocityRequest(wok)
    \/ \E c \in CallChannels : SnapshotBegin(c)
    \/ SnapshotEnd

SpecChan == InitChan /\ [][NextChan]_vars

\* ------------------------------------------------------ the laser protocol

\* The ASCII codes the laser protocol uses.
CR == 13
SP == 32
LDO == <<76, 68, 79>>

\* The bytes bytes.strip() / str.strip() remove: space, \t, \n, \v, \f, \r.
Whitespace == {9, 10, 11, 12, 13, 32}

\* str(value) of a natural number, as ASCII digits.
RECURSIVE Digits(_)
Digits(n) == IF n < 10 THEN <<48 + n>> ELSE Digits(n \div 10) \o <<48 + (n % 10)>>

\* HeliosCommand.build_command: "{command} {value}\r", or "{command}\r" when
\* value is None.  `value' is <<>> for None and <<n>> for the number n.
build_command(command, value) ==
    IF value # <<>> THEN command \o <<SP>> \o Digits(value[1]) \o <<CR>>
    ELSE command \o <<CR>>

RECURSIVE LStrip(_)
LStrip(b) == IF b # <<>> /\ b[1] \in Whitespace THEN LStrip(Tail(b)) ELSE b

RECURSIVE RStrip(_)
RStrip(b) ==
    IF b # <<>> /\ b[Len(b)] \in Whitespace THEN RStrip(SubSeq(b, 1, Len(b) - 1)) ELSE b

\* HeliosCommand.parse_response: `response.decode('ascii').strip()'
parse_response(response) == RStrip(LStrip(response))

\* HeliosProtocol.cmd_set_laser_enable
cmd_set_laser_enable(enabled) == build_command(LDO, <<IF enabled THEN 1 ELSE 0>>)

\* HeliosProtocol.cmd_query_laser_enable
cmd_query_laser_enable == build_command(LDO, <<>>)

\* ------------------------------------------------ laser set-and-verify

\* HeliosDriver.is_connected
l_is_connected == l_connected /\ l_serial_open

\* What read_until(b'\r') may return to the enable query: "1\r", "0\r", or
\* nothing when the read times out.
Replies == {<<49, CR>>, <<48, CR>>, <<>>}

\* The call record of set_laser_enable(enabled).  Ghost fields as for the
\* motor: sets, obs, cut, late, w0.
LBegin(enabled) ==
    [name |-> "set_laser_enable", enabled |-> enabled, attempt |-> 0,
     sets |-> 0, obs |-> <<>>, cut |-> FALSE, late |-> 0, w0 |-> Len(l_wire)]

\* set_laser_enable: `expected = "1" if enabled else "0"'
Expected(enabled) == IF enabled THEN <<49>> ELSE <<48>>

\* _query: None when not connected, when the write raises, or when nothing
\* is read; otherwise the parsed reply.
QueryResult(wrote, reply) ==
    IF wrote /\ reply # <<>> THEN [ok |-> TRUE, text |-> parse_response(reply)]
    ELSE [ok |-> FALSE, text |-> <<>>]

\* _set_and_verify, `if response and response == expected_value'
Verified(response, expected) ==
    response.ok /\ response.text # <<>> /\ response.text = expected

\* The application thread is inside _set_and_verify.
LVerifying == l_pc["caller"] \in {"lv_send", "lv_query"}

\* HeliosDriver.set_laser_enable called by the application thread.
SetLaserEnable(enabled) ==
    /\ l_pc["caller"] = "idle"
    /\ steps < MaxLaserCalls
    /\ steps' = steps + 1
    /\ l_pc' = [l_pc EXCEPT !["caller"] = "lv_send"]
    /\ l_call' = [l_call EXCEPT !["caller"] = LBegin(enabled)]
    /\ UNCHANGED <<device, settingsVars, rx_threads, cbVars, pumpVars, channels, connVars, callpc, call, ret, snap, discpc,
                   l_connected, l_serial_open, comm_lock, l_wire, l_cache, l_ret, wr>>

\* set_laser_enable returns: the cached flag follows a verified set.
LReturn(rec, ok) ==
    /\ l_pc' = [l_pc EXCEPT !["caller"] = "idle"]
    /\ l_call' = [l_call EXCEPT !["caller"] = rec]
    /\ l_ret' = [l_ret EXCEPT !["caller"] = Bool(ok)]
    /\ l_cache' = IF ok THEN [l_cache EXCEPT !.laser_enabled = rec.enabled] ELSE l_cache

\* _set_and_verify moves to its next attempt, or fails after the last.
LNextAttempt(rec) ==
    IF rec.attempt + 1 < Retries
    THEN /\ l_pc' = [l_pc EXCEPT !["caller"] = "lv_send"]
         /\ l_call' = [l_call EXCEPT !["caller"] = [rec EXCEPT !.attempt = @ + 1]]
         /\ UNCHANGED <<l_ret, l_cache>>
    ELSE LReturn([rec EXCEPT !.attempt = @ + 1], FALSE)

\* _set_and_verify: `if not self._send_command(set_cmd): continue'; the
\* write and the flush happen with _comm_lock held.
LvSend(wok) ==
    LET rec == l_call["caller"]
        ok == l_is_connected /\ wok
    IN  /\ l_pc["caller"] = "lv_send"
        /\ comm_lock = "free"
        /\ l_wire' = IF ok THEN l_wire \o cmd_set_laser_enable(rec.enabled) ELSE l_wire
        /\ IF ok
           THEN /\ l_pc' = [l_pc EXCEPT !["caller"] = "lv_query"]
                /\ l_call' = [l_call EXCEPT !["caller"] =
                                [rec EXCEPT !.sets = @ + 1,
                                            !.late = IF rec.cut THEN @ + 1 ELSE @]]
                /\ UNCHANGED <<l_ret, l_cache>>
           ELSE LNextAttempt(rec)
        /\ UNCHANGED <<device, settingsVars, rx_threads, cbVars, pumpVars, channels, connVars, callVars, discpc,
                       l_connected, l_serial_open, comm_lock, wr>>

\* _set_and_verify: the query and the comparison with the expected value.
LvQuery(reply) ==
    LET wrote == l_is_connected
        response == QueryResult(wrote, reply)
        rec == [l_call["caller"] EXCEPT
                    !.obs = Append(@, response),
                    !.late = IF l_call["caller"].cut /\ wrote THEN @ + 1 ELSE @]
    IN  /\ l_pc["caller"] = "lv_query"
        /\ comm_lock = "free"
        /\ l_wire' = IF wrote THEN l_wire \o cmd_query_laser_enable ELSE l_wire
        /\ IF Verified(response, Expected(rec.enabled))
           THEN LReturn(rec, TRUE)
           ELSE LNextAttempt(rec)
        /\ UNCHANGED <<device, settingsVars, rx_threads, cbVars, pumpVars, channels, connVars, callVars, discpc,
                       l_connected, l_serial_open, comm_lock, wr>>

\* _set_and_verify run from start to end by a thread that nothing
\* interrupts: the wire after it and its result.  rs lists the replies to
\* the queries of the attempts that are left.
RECURSIVE SetAndVerify(_, _, _, _, _)
SetAndVerify(w, set_cmd, query_cmd, expected, rs) ==
    IF rs = <<>> THEN [wire |-> w, ok |-> FALSE]
    ELSE IF Verified(QueryResult(TRUE, Head(rs)), expected)
         THEN [wire |-> w \o set_cmd \o query_cmd, ok |-> TRUE]
         ELSE SetAndVerify(w \o set_cmd \o query_cmd, set_cmd, query_cmd, expected, Tail(rs))

\* HeliosDriver.disconnect up to its sleep: `self.set_laser_enable(False)'.
LDisconnectBegin(rs) ==
    LET r == SetAndVerify(l_wire, cmd_set_laser_enable(FALSE), cmd_query_laser_enable,
                          Expected(FALSE), rs)
    IN  /\ l_pc["closer"] = "idle"
        /\ l_connected
        /\ comm_lock = "free"
        /\ l_wire' = r.wire
        /\ l_cache' = IF r.ok THEN [l_cache EXCEPT !.laser_enabled = FALSE] ELSE l_cache
        /\ l_pc' = [l_pc EXCEPT !["closer"] = "closing"]
        /\ l_call' = [l_call EXCEPT !["closer"] = [name |-> "disconnect"]]
        /\ UNCHANGED <<device, settingsVars, rx_threads, cbVars, pumpVars, channels, connVars, callVars, discpc,
                       l_connected, l_serial_open, comm_lock, l_ret, wr>>

\* disconnect, the rest: the port closed, _connected cleared.
LDisconnectEnd ==
    /\ l_pc["closer"] = "closing"
    /\ l_serial_open' = FALSE
    /\ l_connected' = FALSE
    /\ l_pc' = [l_pc EXCEPT !["closer"] = "idle"]
    /\ l_ret' = [l_ret EXCEPT !["closer"] = "True"]
    /\ l_call' = IF LVerifying
                 THEN [l_call EXCEPT !["caller"].cut = TRUE] ELSE l_call
    /\ UNCHANGED <<device, settingsVars, rx_threads, cbVars, pumpVars, channels, connVars, callVars, discpc,
                   comm_lock, l_wire, l_cache, wr>>

\* --------------------------------------- the set-and-verify specification

\* What the controller reports about channel 1's enable state.
VerifyFrames ==
    {StatusFrame(CHANNEL_1, 0, S) : S \in {{MOTOR_ENABLED}, {}}}
    \cup {build_header_only(MGMSG_MOD_GET_CHANENABLESTATE, p1, 1, CHANNEL_1, DEST_USB) :
            p1 \in {1, 2}}

\* Nothing has been done with the motor driver / with the laser driver.
MotorUntouched == call = NoCall /\ discpc = "idle" /\ rxlast.n = 0
LaserUntouched == \A t \in LThreads : l_call[t] = NoCall

\* The two drivers are separate objects that share no state: a behaviour
\* exercises one of them, the one it starts with.
NextVerify ==
    \/ LaserUntouched /\ \E f \in VerifyFrames : RxDeliver(f)
    \/ LaserUntouched /\ \E c \in CallChannels, enable \in BOOLEAN : EnableChannel(c, enable)
    \/ \E wok \in BOOLEAN : SvSend(wok)
    \/ SvRequest(TRUE)
    \/ SvCheck
    \/ LaserUntouched /\ DisconnectBegin(TRUE)
    \/ DisconnectEnd
    \/ MotorUntouched /\ \E enabled \in BOOLEAN : SetLaserEnable(enabled)
    \/ \E wok \in BOOLEAN : LvSend(wok)
    \/ \E reply \in Replies : LvQuery(reply)
    \/ MotorUntouched /\ \E rs \in [1..Retries -> Replies] : LDisconnectBegin(rs)
    \/ LDisconnectEnd

SpecVerify == InitChan /\ [][NextVerify]_vars

\* ------------------------------------------------- concurrent writers

\* Commands the writer threads send to the motor controller and to the laser.
MotorWriteCmds == {cmd_identify(1), cmd_move_stop(2, TRUE)}
LaserWriteCmds == {cmd_set_laser_enable(TRUE), cmd_set_laser_enable(FALSE)}

\* _send_command of either driver is entered by thread t: the is_connected
\* check.  The motor driver goes straight to serial.write, the laser driver
\* to `with self._comm_lock'.
SendBegin(t, dev, cmd) ==
    LET up == IF dev = "motor" THEN is_connected ELSE l_is_connected IN
    /\ wr[t].pc = "idle"
    /\ steps < MaxWrites
    /\ steps' = steps + 1
    /\ wr' = [wr EXCEPT ![t] =
                IF ~up THEN NoWrite
                ELSE [pc |-> IF dev = "motor" THEN "write" ELSE "lock",
                      dev |-> dev, cmd |-> cmd, at |-> 0]]
    /\ UNCHANGED <<device, settingsVars, rx_threads, cbVars, pumpVars, channels, connVars, callpc, call, ret, snap, discpc, laserVars>>

\* HeliosDriver._send_command, `with self._comm_lock:' entered.
LockAcquire(t) ==
    /\ wr[t].pc = "lock"
    /\ comm_lock = "free"
    /\ comm_lock' = t
    /\ wr' = [wr EXCEPT ![t].pc = "write"]
    /\ UNCHANGED <<device, settingsVars, rx_threads, cbVars, pumpVars, channels, connVars, callVars, discpc,
                   l_connected, l_serial_open, l_wire, l_cache, l_pc, l_call, l_ret>>

\* serial.write(cmd) in progress: the port takes the next k bytes (the
\* library writes until all are taken, with no lock of its own).  After the
\* last byte the motor's _send_command returns; the laser's goes on to leave
\* the with block.
WriteSome(t, k) ==
    LET w == wr[t]
        part == SubSeq(w.cmd, w.at + 1, w.at + k)
        last == w.at + k = Len(w.cmd)
    IN  /\ w.pc = "write"
        /\ k \in 1..(Len(w.cmd) - w.at)
        /\ IF w.dev = "motor"
           THEN /\ wire' = wire \o part
                /\ UNCHANGED l_wire
           ELSE /\ l_wire' = l_wire \o part
                /\ UNCHANGED wire
        /\ wr' = [wr EXCEPT ![t].at = w.at + k,
                            ![t].pc = IF ~last THEN "write"
                                      ELSE IF w.dev = "motor" THEN "idle" ELSE "unlock"]
        /\ UNCHANGED <<device, settingsVars, rx_threads, cbVars, pumpVars, channels, connected, serial_open, stop_thread, callVars,
                       discpc, l_connected, l_serial_open, comm_lock, l_cache, l_pc,
                       l_call, l_ret>>

\* HeliosDriver._send_command, the with block left: the lock released.
LockRelease(t) ==
    /\ wr[t].pc = "unlock"
    /\ comm_lock' = "free"
    /\ wr' = [wr EXCEPT ![t].pc = "idle"]
    /\ UNCHANGED <<device, settingsVars, rx_threads, cbVars, pumpVars, channels, connVars, callVars, discpc,
                   l_connected, l_serial_open, l_wire, l_cache, l_pc, l_call, l_ret>>

NextWrite ==
    \/ \E t \in Writers, cmd \in MotorWriteCmds : SendBegin(t, "motor", cmd)
    \/ \E t \in Writers, cmd \in LaserWriteCmds : SendBegin(t, "laser", cmd)
    \/ \E t \in Writers : LockAcquire(t)
    \/ \E t \in Writers, k \in 1..HeaderLen : WriteSome(t, k)
    \/ \E t \in Writers : LockRelease(t)

SpecWrite == InitChan /\ [][NextWrite]_vars

\* --------------------------------------------- registering callbacks

\* Channel arguments of the register calls: two channels and one that is none.
RegChannels == {1, 2, 4}

\* Callbacks registered so far, over both kinds and all channels.
RECURSIVE SumLen(_, _)
SumLen(f, S) ==
    IF S = {} THEN 0
    ELSE LET n == CHOOSE x \in S : TRUE IN Len(f[n]) + SumLen(f, S \ {n})
Registered == SumLen(move_complete_callbacks, Channels) + SumLen(home_complete_callbacks, Channels)

\* BBD203Driver.register_move_complete_callback
register_move_complete_callback(channel, callback) ==
    /\ Registered < MaxCallbacks
    /\ move_complete_callbacks' =
        IF channel \in {1, 2, 3}
        THEN [move_complete_callbacks EXCEPT ![channel] = Append(@, callback)]
        ELSE move_complete_callbacks
    /\ UNCHANGED <<device, settingsVars, rx_threads, home_complete_callbacks, invoked, rxerr, pumpVars, channels, connVars,
                   callVars, discpc, laserVars, wr>>

\* BBD203Driver.register_home_complete_callback
register_home_complete_callback(channel, callback) ==
    /\ Registered < MaxCallbacks
    /\ home_complete_callbacks' =
        IF channel \in {1, 2, 3}
        THEN [home_complete_callbacks EXCEPT ![channel] = Append(@, callback)]
        ELSE home_complete_callbacks
    /\ UNCHANGED <<device, settingsVars, rx_threads, move_complete_callbacks, invoked, rxerr, pumpVars, channels, connVars,
                   callVars, discpc, laserVars, wr>>

\* Destination bytes of the frames delivered while callbacks are registered:
\* two channels and 0x24, which is no channel.
CbDests == {CHANNEL_1, CHANNEL_1 + 1, CHANNEL_1 + 3}

\* One frame of each channel-scoped kind for each destination.
CbFrames ==
    {StatusFrame(d, 200000, {HOMED, MOTOR_ENABLED, IN_MOTION_FORWARD}) : d \in CbDests}
    \cup {build_with_data(id, d, StatusPayload(200000, 200000, {HOMED, MOTOR_ENABLED}), DEST_USB) :
            id \in {MGMSG_MOT_MOVE_COMPLETED, MGMSG_MOT_MOVE_STOPPED}, d \in CbDests}
    \cup {build_header_only(MGMSG_MOT_MOVE_HOMED, 0, 0, d, DEST_USB) : d \in CbDests}
    \cup {build_header_only(MGMSG_MOD_GET_CHANENABLESTATE, 1, 1, d, DEST_USB) : d \in CbDests}

NextCallback ==
    \/ \E c \in RegChannels, cb \in Callbacks : register_move_complete_callback(c, cb)
    \/ \E c \in RegChannels, cb \in Callbacks : register_home_complete_callback(c, cb)
    \/ \E f \in CbFrames : RxDeliver(f)

SpecCallback == InitChan /\ [][NextCallback]_vars

\* ------------------------------- the pump on unhandled and short messages

\* Frames with an id the driver has no branch for (header-only and
\* data-bearing), completion frames for channel 1, a whole status update,
\* and status updates whose length field announces fewer than 14 data bytes.
SkipFrames ==
    {build_header_only(MGMSG_HW_DISCONNECT, p1, 0, CHANNEL_1, DEST_USB) : p1 \in {0, 1}}
    \cup {build_with_data(MGMSG_MOT_GET_VELPARAMS, CHANNEL_1, <<1, 0>>, DEST_USB),
          build_header_only(MGMSG_MOT_MOVE_COMPLETED, 0, 0, CHANNEL_1, DEST_USB),
          build_header_only(MGMSG_MOT_MOVE_HOMED, 0, 0, CHANNEL_1, DEST_USB),
          StatusFrame(CHANNEL_1, 7, {HOMED, MOTOR_ENABLED, IN_MOTION_FORWARD}),
          build_with_data(MGMSG_MOT_GET_STATUSUPDATE, CHANNEL_1, <<1, 0, 7, 0>>, DEST_USB),
          build_header_only(MGMSG_MOT_GET_STATUSUPDATE, 0, 0, CHANNEL_1, DEST_USB)}

InitSkip ==
    /\ sent \in UNION {[1..n -> SkipFrames] : n \in 1..MaxFrames}
    /\ pending = Flatten(sent)
    /\ InitConnected

NextSkip ==
    \/ RxRead
    \/ RxDispatch
    \/ RxWait
    \/ register_move_complete_callback(1, "cb_a")
    \/ register_home_complete_callback(1, "cb_a")

SpecSkip == InitSkip /\ [][NextSkip]_vars

\* ------------------------------------- laser setters and queries, whole

LDF == <<76, 68, 70>>
LDS == <<76, 68, 83>>
LER == <<76, 69, 82>>

\* HeliosProtocol.RANGE_LDF (ns) and RANGE_LDS (mA); 1e9 ns in a second.
RANGE_LDF_MIN == 8000
RANGE_LDF_MAX == 60000
RANGE_LDS_MIN == 0
RANGE_LDS_MAX == 7000
NsPerSecond == 1000000000

\* int(text) of a stripped string: an optional sign and decimal digits;
\* ok = FALSE stands for ValueError.
RECURSIVE DigitsValue(_)
DigitsValue(t) ==
    IF t = <<>> THEN 0 ELSE 10 * DigitsValue(SubSeq(t, 1, Len(t) - 1)) + (t[Len(t)] - 48)
ParseInt(text) ==
    LET body == IF text # <<>> /\ text[1] \in {43, 45} THEN Tail(text) ELSE text
        good == body # <<>> /\ \A i \in 1..Len(body) : body[i] \in 48..57
    IN  IF good
        THEN [ok |-> TRUE,
              value |-> IF text[1] = 45 THEN 0 - DigitsValue(body) ELSE DigitsValue(body)]
        ELSE [ok |-> FALSE, value |-> 0]

\* HeliosProtocol.frequency_to_period_ns: int(1e9 / freq_hz); ValueError
\* (ok = FALSE) when the frequency is not positive.
frequency_to_period_ns(freq_hz) ==
    IF freq_hz <= 0 THEN [ok |-> FALSE, period_ns |-> 0]
    ELSE [ok |-> TRUE, period_ns |-> NsPerSecond \div freq_hz]

\* (mutant) period_ns_to_frequency dividing the wrong way round.
period_ns_to_frequency_Inverted(period_ns) ==
    IF period_ns <= 0 THEN [ok |-> FALSE, freq_hz |-> <<0, 1>>]
    ELSE [ok |-> TRUE, freq_hz |-> <<period_ns, NsPerSecond>>]

\* HeliosProtocol.period_ns_to_frequency: 1e9 / period_ns, kept as the exact
\* fraction; ValueError when the period is not positive.
period_ns_to_frequency(period_ns) ==
    IF period_ns <= 0 THEN [ok |-> FALSE, freq_hz |-> <<0, 1>>]
    ELSE [ok |-> TRUE, freq_hz |-> <<NsPerSecond, period_ns>>]

\* (mutant) cmd_set_frequency_hz without the range check on the period.
cmd_set_frequency_hz_NoRange(freq_hz) ==
    LET p == frequency_to_period_ns(freq_hz) IN
    IF p.ok THEN [ok |-> TRUE, cmd |-> build_command(LDF, <<p.period_ns>>)]
    ELSE [ok |-> FALSE, cmd |-> <<>>]

\* HeliosProtocol.cmd_set_frequency_hz; ok = FALSE stands for ValueError.
cmd_set_frequency_hz(freq_hz) ==
    LET p == frequency_to_period_ns(freq_hz) IN
    IF p.ok /\ RANGE_LDF_MIN <= p.period_ns /\ p.period_ns <= RANGE_LDF_MAX
    THEN [ok |-> TRUE, cmd |-> build_command(LDF, <<p.period_ns>>)]
    ELSE [ok |-> FALSE, cmd |-> <<>>]

\* HeliosProtocol.cmd_set_current_ma; ok = FALSE stands for ValueError.
cmd_set_current_ma(current_ma) ==
    IF RANGE_LDS_MIN <= current_ma /\ current_ma <= RANGE_LDS_MAX
    THEN [ok |-> TRUE, cmd |-> build_command(LDS, <<current_ma>>)]
    ELSE [ok |-> FALSE, cmd |-> <<>>]

cmd_query_frequency == build_command(LDF, <<>>)
cmd_query_current == build_command(LDS, <<>>)
cmd_query_status == build_command(LER, <<>>)

\* What read_until(b'\r') may return to a query whose answer is a number:
\* one of two numbers, nothing (timeout), or "?\r".
Junk == <<63, CR>>
NumberReplies(a, b) == {Digits(a) \o <<CR>>, Digits(b) \o <<CR>>, <<>>, Junk}
EnableReplies == NumberReplies(1, 0)
FrequencyReplies == NumberReplies(20000, 8000)
CurrentReplies == NumberReplies(1000, 500)
StatusReplies == NumberReplies(0, 4)

\* The responses _set_and_verify gets from _query, attempt by attempt, up to
\* and including the one that verifies.
RECURSIVE Observed(_, _)
Observed(rs, expected) ==
    IF rs = <<>> THEN <<>>
    ELSE IF Verified(QueryResult(TRUE, Head(rs)), expected)
         THEN <<QueryResult(TRUE, Head(rs))>>
         ELSE <<QueryResult(TRUE, Head(rs))>> \o Observed(Tail(rs), expected)

\* The text of the last response that was not None, <<>> when there was none.
RECURSIVE LastSeen(_)
LastSeen(obs) ==
    IF obs = <<>> THEN <<>>
    ELSE IF obs[Len(obs)].ok /\ obs[Len(obs)].text # <<>> THEN obs[Len(obs)].text
         ELSE LastSeen(SubSeq(obs, 1, Len(obs) - 1))

\* One laser operation run from start to end by the application thread.
\* wok: the port takes the writes of this call (FALSE: every write raises
\* SerialException).  The call record keeps, as ghosts, whether verification
\* ran and failed on every attempt and the last response seen.
LaserOpIdle == l_pc["caller"] = "idle" /\ steps < MaxLaserOps /\ comm_lock = "free"

LaserSetDone(name, arg, valid, set_cmd, query_cmd, expected, field, value, wok, rs) ==
    LET run == IF valid /\ wok /\ l_is_connected
               THEN SetAndVerify(l_wire, set_cmd, query_cmd, expected, rs)
               ELSE [wire |-> l_wire, ok |-> FALSE]
        obs == IF valid /\ wok /\ l_is_connected THEN Observed(rs, expected) ELSE <<>>
    IN  /\ l_wire' = run.wire
        /\ l_cache' = IF run.ok THEN [l_cache EXCEPT ![field] = value] ELSE l_cache
        /\ l_ret' = [l_ret EXCEPT !["caller"] = Bool(run.ok)]
        /\ l_call' = [l_call EXCEPT !["caller"] =
                        [name |-> name, arg |-> arg, exhausted |-> (Len(obs) = Retries /\ ~run.ok),
                         seen |-> LastSeen(obs)]]
        /\ steps' = steps + 1
        /\ UNCHANGED <<device, settingsVars, rx_threads, cbVars, pumpVars, channels, connVars, callpc, call, ret, snap, discpc,
                       l_connected, l_serial_open, comm_lock, l_pc, wr>>

\* HeliosDriver.set_laser_enable
set_laser_enable(enabled, wok, rs) ==
    /\ LaserOpIdle
    /\ LaserSetDone("set_laser_enable", enabled, TRUE, cmd_set_laser_enable(enabled),
                    cmd_query_laser_enable, Expected(enabled), "laser_enabled", enabled, wok, rs)

\* HeliosDriver.set_frequency_hz: a ValueError from the command builder is
\* caught and the call returns False.
set_frequency_hz(freq_hz, wok, rs) ==
    LET c == cmd_set_frequency_hz(freq_hz)
        p == frequency_to_period_ns(freq_hz)
    IN  /\ LaserOpIdle
        /\ LaserSetDone("set_frequency_hz", freq_hz, c.ok, c.cmd, cmd_query_frequency,
                        IF c.ok THEN Digits(p.period_ns) ELSE <<>>,
                        "frequency_hz", <<freq_hz, 1>>, wok, rs)

\* HeliosDriver.set_current_ma
set_current_ma(current_ma, wok, rs) ==
    LET c == cmd_set_current_ma(current_ma)
    IN  /\ LaserOpIdle
        /\ LaserSetDone("set_current_ma", current_ma, c.ok, c.cmd, cmd_query_current,
                        IF c.ok THEN Digits(current_ma) ELSE <<>>,
                        "current_ma", current_ma, wok, rs)

LaserQueryDone(name, wrote, query_cmd, response, cache, result) ==
    /\ l_wire' = IF wrote THEN l_wire \o query_cmd ELSE l_wire
    /\ l_cache' = cache
    /\ l_ret' = [l_ret EXCEPT !["caller"] = result]
    /\ l_call' = [l_call EXCEPT !["caller"] =
                    [name |-> name, arg |-> 0, exhausted |-> FALSE, seen |-> response.text]]
    /\ steps' = steps + 1
    /\ UNCHANGED <<device, settingsVars, rx_threads, cbVars, pumpVars, channels, connVars, callpc, call, ret, snap, discpc,
                   l_connected, l_serial_open, comm_lock, l_pc, wr>>

\* HeliosDriver.query_laser_enable: `if response: self._laser_enabled =
\* (response == "1")'
query_laser_enable(wok, reply) ==
    LET wrote == l_is_connected /\ wok
        response == QueryResult(wrote, reply)
        got == response.ok /\ response.text # <<>>
        value == (response.text = <<49>>)
    IN  /\ LaserOpIdle
        /\ LaserQueryDone("query_laser_enable", wrote, cmd_query_laser_enable, response,
                          IF got THEN [l_cache EXCEPT !.laser_enabled = value] ELSE l_cache,
                          Bool(got /\ value))

\* HeliosDriver.query_frequency_hz: int(response), period_ns_to_frequency;
\* a ValueError leaves the cache alone and the call returns None.
query_frequency_hz(wok, reply) ==
    LET wrote == l_is_connected /\ wok
        response == QueryResult(wrote, reply)
        n == ParseInt(response.text)
        f == period_ns_to_frequency(n.value)
        got == response.ok /\ response.text # <<>> /\ n.ok /\ f.ok
    IN  /\ LaserOpIdle
        /\ LaserQueryDone("query_frequency_hz", wrote, cmd_query_frequency, response,
                          IF got THEN [l_cache EXCEPT !.frequency_hz = f.freq_hz] ELSE l_cache,
                          IF got THEN "freq_hz" ELSE "None")

\* HeliosDriver.query_status: int(response) into the cached status register.
query_status(wok, reply) ==
    LET wrote == l_is_connected /\ wok
        response == QueryResult(wrote, reply)
        n == ParseInt(response.text)
        got == response.ok /\ response.text # <<>> /\ n.ok
    IN  /\ LaserOpIdle
        /\ LaserQueryDone("query_status", wrote, cmd_query_status, response,
                          IF got THEN [l_cache EXCEPT !.status = n.value] ELSE l_cache,
                          "status")

\* Arguments of the set calls: frequencies in Hz (period 20000 ns in range;
\* not positive; periods 100000 ns and 7999 ns out of range) and currents in mA.
FrequencyInputs == {50000, 0, 10000, 125001}
CurrentInputs == {1000, -1, 7001}

NextLaser ==
    \/ \E enabled \in BOOLEAN, wok \in BOOLEAN, rs \in [1..Retries -> EnableReplies] :
            set_laser_enable(enabled, wok, rs)
    \/ \E f \in FrequencyInputs, wok \in BOOLEAN, rs \in [1..Retries -> FrequencyReplies] :
            set_frequency_hz(f, wok, rs)
    \/ \E c \in CurrentInputs, wok \in BOOLEAN, rs \in [1..Retries -> CurrentReplies] :
            set_current_ma(c, wok, rs)
    \/ \E wok \in BOOLEAN, reply \in EnableReplies : query_laser_enable(wok, reply)
    \/ \E wok \in BOOLEAN, reply \in FrequencyReplies : query_frequency_hz(wok, reply)
    \/ \E wok \in BOOLEAN, reply \in StatusReplies : query_status(wok, reply)

SpecLaser == InitChan /\ [][NextLaser]_vars

\* ------------------------------------------------ blocking motion calls

\* The record of a call made with wait=True.  elapsed is time.time() -
\* start_time in sleep intervals; the ghosts say whether the wait loop was
\* entered, how often the flags were polled, whether a poll found the
\* awaited condition, and whether the pump processed the completion message
\* of the awaited channel during the wait and before the timeout.
BeginWait(name, c) ==
    [name |-> name, ch |-> c, elapsed |-> 0, entered |-> FALSE, polls |-> 0,
     sawdone |-> FALSE, completed |-> FALSE]

Waiting == callpc \in {"w_time", "w_poll", "w_sleep"}

\* BBD203Driver.home_channel(channel, wait=True, timeout) up to its wait loop.
HomeChannelBlocking(c, wok) ==
    /\ CallerIdle
    /\ steps' = steps + 1
    /\ IF c \notin Channels
       THEN /\ Return(BeginWait("home_channel", c), "False")
            /\ UNCHANGED <<channels, wire>>
       ELSE /\ channels' = [channels EXCEPT ![c] = home_channel_flags(@)]
            /\ wire' = SendWire(wire, cmd_move_home(c), wok)
            /\ IF SendOk(wok)
               THEN /\ callpc' = "w_time"
                    /\ call' = [BeginWait("home_channel", c) EXCEPT !.entered = TRUE]
                    /\ UNCHANGED ret
               ELSE Return(BeginWait("home_channel", c), "False")
    /\ UNCHANGED <<device, settingsVars, rx_threads, cbVars, pumpVars, connected, serial_open, stop_thread, snap, discpc, laserVars, wr>>

\* The part move_absolute and move_relative share, up to the wait loop.
MoveBlocking(name, c, cmd, wok) ==
    /\ CallerIdle
    /\ steps' = steps + 1
    /\ IF c \notin Channels \/ ~is_ready(channels[c])
       THEN /\ Return(BeginWait(name, c), "False")
            /\ UNCHANGED <<channels, wire>>
       ELSE /\ channels' = [channels EXCEPT ![c] = move_flags(@)]
            /\ wire' = SendWire(wire, cmd, wok)
            /\ IF SendOk(wok)
               THEN /\ callpc' = "w_time"
                    /\ call' = [BeginWait(name, c) EXCEPT !.entered = TRUE]
                    /\ UNCHANGED ret
               ELSE Return(BeginWait(name, c), "False")
    /\ UNCHANGED <<device, settingsVars, rx_threads, cbVars, pumpVars, connected, serial_open, stop_thread, snap, discpc, laserVars, wr>>

\* BBD203Driver.move_absolute(channel, position_mm, wait=True, timeout)
MoveAbsoluteBlocking(c, pos_mm, wok) ==
    MoveBlocking("move_absolute", c,
                 IF c \in Channels THEN cmd_move_absolute(c, pos_mm) ELSE <<>>, wok)

\* BBD203Driver.move_relative(channel, distance_mm, wait=True, timeout)
MoveRelativeBlocking(c, dist_mm, wok) ==
    MoveBlocking("move_relative", c,
                 IF c \in Channels THEN cmd_move_relative(c, dist_mm) ELSE <<>>, wok)

\* (mutant) the wait loop as `while True:'.
WaitTime_NoTimeout ==
    /\ callpc = "w_time"
    /\ callpc' = "w_poll"
    /\ UNCHANGED <<call, ret>>
    /\ UNCHANGED <<device, settingsVars, rx_threads, cbVars, pumpVars, channels, connVars, snap, steps, discpc, laserVars, wr>>

\* `while time.time() - start_time < timeout:' and, when it is false, the
\* `return False' after the loop.
WaitTime ==
    /\ callpc = "w_time"
    /\ IF call.elapsed < TimeoutTicks
       THEN /\ callpc' = "w_poll"
            /\ UNCHANGED <<call, ret>>
       ELSE Return(call, "False")
    /\ UNCHANGED <<device, settingsVars, rx_threads, cbVars, pumpVars, channels, connVars, snap, steps, discpc, laserVars, wr>>

\* The condition the wait loop reads from the live channel object.
WaitDone(name, ch) ==
    IF name = "home_channel" THEN ch.homed /\ ~ch.homing ELSE ~ch.moving

\* `if <condition>: return True'
WaitPoll ==
    /\ callpc = "w_poll"
    /\ LET done == WaitDone(call.name, channels[call.ch])
           rec == [call EXCEPT !.polls = @ + 1, !.sawdone = done]
       IN  IF done
           THEN Return(rec, "True")
           ELSE /\ callpc' = "w_sleep"
                /\ call' = rec
                /\ UNCHANGED ret
    /\ UNCHANGED <<device, settingsVars, rx_threads, cbVars, pumpVars, channels, connVars, snap, steps, discpc, laserVars, wr>>

\* time.sleep(...): the clock moves on by one interval or more.
WaitSleep(k) ==
    /\ callpc = "w_sleep"
    /\ callpc' = "w_time"
    /\ call' = [call EXCEPT !.elapsed = IF @ + k > TimeoutTicks THEN TimeoutTicks ELSE @ + k]
    /\ UNCHANGED <<device, settingsVars, rx_threads, cbVars, pumpVars, channels, connVars, ret, snap, steps, discpc, laserVars, wr>>

\* What the controller sends while a caller waits on channel 1: the two
\* completion messages, status updates with and without motion and homed
\* bits, and a completion for another channel.
WaitFrames ==
    {build_header_only(MGMSG_MOT_MOVE_HOMED, 0, 0, CHANNEL_1, DEST_USB),
     build_with_data(MGMSG_MOT_MOVE_COMPLETED, CHANNEL_1,
                     StatusPayload(200000, 200000, {HOMED, MOTOR_ENABLED}), DEST_USB),
     build_with_data(MGMSG_MOT_MOVE_COMPLETED, CHANNEL_1 + 1,
                     StatusPayload(200000, 200000, {HOMED, MOTOR_ENABLED}), DEST_USB),
     StatusFrame(CHANNEL_1, 200000, {HOMED, MOTOR_ENABLED}),
     StatusFrame(CHANNEL_1, 200000, {HOMED, MOTOR_ENABLED, IN_MOTION_FORWARD}),
     StatusFrame(CHANNEL_1, 0, {MOTOR_ENABLED, HOMING, IN_MOTION_REVERSE})}

\* The completion message a waiting call is about.
CompletesCall(rec, frame) ==
    /\ frame[5] = ChannelDestBase + rec.ch
    /\ parse_header(frame).msg_id =
        IF rec.name = "home_channel" THEN MGMSG_MOT_MOVE_HOMED ELSE MGMSG_MOT_MOVE_COMPLETED

\* _receive_loop on a whole frame, as RxDeliver, while a caller may be
\* waiting: the call record notes a completion processed during its wait.
WaitDeliver(frame) ==
    /\ steps < MaxSteps
    /\ rxpc = "poll"
    /\ ~stop_thread
    /\ serial_open
    /\ buffer = <<>>
    /\ CanExtract(frame)
    /\ MsgLen(frame) = Len(frame)
    /\ steps' = steps + 1
    /\ rxlast' = [n |-> rxlast.n + 1, msg |-> frame]
    /\ channels' = ProcessMessage(channels, parse_header(frame).msg_id, frame)
    /\ invoked' = RunCallbacks(CallbacksFor(move_complete_callbacks, home_complete_callbacks,
                                            parse_header(frame).msg_id, frame), ChannelOf(frame))
    /\ rxerr' = ProcessFails(move_complete_callbacks, home_complete_callbacks,
                             parse_header(frame).msg_id, frame)
    /\ call' = IF Waiting /\ call.elapsed < TimeoutTicks /\ CompletesCall(call, frame)
               THEN [call EXCEPT !.completed = TRUE]
               ELSE call
    /\ UNCHANGED <<device, settingsVars, rx_threads, move_complete_callbacks, home_complete_callbacks, sent, pending, buffer, rxpc,
                   dispatched, connVars, callpc, ret, snap, discpc, laserVars, wr>>

NextWait ==
    \/ \E f \in WaitFrames : WaitDeliver(f)
    \/ \E c \in CallChannels, wok \in BOOLEAN : HomeChannelBlocking(c, wok)
    \/ \E c \in CallChannels, wok \in BOOLEAN : MoveAbsoluteBlocking(c, <<10, 1>>, wok)
    \/ \E c \in CallChannels, wok \in BOOLEAN : MoveRelativeBlocking(c, <<1, 2>>, wok)
    \/ WaitTime
    \/ WaitPoll
    \/ \E k \in 1..2 : WaitSleep(k)

SpecWait == InitChan /\ [][NextWait]_vars

\* The calling thread keeps running: the loop test, the poll and the end of
\* a sleep are each taken when they stay possible.
SpecWaitFair ==
    SpecWait /\ WF_vars(WaitTime) /\ WF_vars(WaitPoll) /\ WF_vars(\E k \in 1..2 : WaitSleep(k))

\* ------------------------------------------- the connection lifecycle

\* Consecutive read errors of one receive thread are counted up to here.
MaxReadErrors == 4

\* Frames the receive threads read, in all.
MaxReads == 2

\* What the device sends: a home completion and a status update of channel 1.
LifeFrames ==
    {build_header_only(MGMSG_MOT_MOVE_HOMED, 0, 0, CHANNEL_1, DEST_USB),
     StatusFrame(CHANNEL_1, 200000, {HOMED, MOTOR_ENABLED, IN_MOTION_FORWARD})}

\* The receive threads that have not left _receive_loop.
RunningThreads == {i \in 1..Len(rx_threads) : rx_threads[i].pc # "exited"}

\* Frames read by the receive threads and not dispatched yet.
RECURSIVE InBuffers(_)
InBuffers(ts) == IF ts = <<>> THEN 0 ELSE Len(Head(ts).buf) + InBuffers(Tail(ts))

\* BBD203Driver.connect(port): serial.Serial(...) either raises
\* SerialException (ok = FALSE) or opens the port; nothing looks at a
\* connection or a receive thread that already exists.
connect(ok) ==
    /\ CallerIdle
    /\ steps' = steps + 1
    /\ IF ok
       THEN /\ serial_open' = TRUE
            /\ connected' = TRUE
            /\ stop_thread' = FALSE
            /\ rx_threads' = Append(rx_threads, RxThread)
            /\ wire' = wire \o cmd_req_hw_info \o cmd_start_update_msgs
            /\ discpc' = "idle"
            /\ Return(Begin("connect", 0), "True")
       ELSE /\ connected' = FALSE
            /\ Return(Begin("connect", 0), "False")
            /\ UNCHANGED <<serial_open, stop_thread, rx_threads, wire, discpc>>
    /\ UNCHANGED <<device, settingsVars, cbVars, pumpVars, channels, snap, laserVars, wr>>

\* BBD203Driver.disconnect up to the join: True at once when _connected is
\* not set, else the stop-updates command and the stop flag.
disconnect_begin(wok) ==
    /\ CallerIdle
    /\ steps' = steps + 1
    /\ IF ~connected
       THEN /\ discpc' = "done"
            /\ Return(Begin("disconnect", 0), "True")
            /\ UNCHANGED <<wire, stop_thread>>
       ELSE /\ wire' = SendWire(wire, cmd_stop_update_msgs, wok)
            /\ stop_thread' = TRUE
            /\ discpc' = "joining"
            /\ callpc' = "join"
            /\ call' = Begin("disconnect", 0)
            /\ UNCHANGED ret
    /\ UNCHANGED <<device, settingsVars, rx_threads, cbVars, pumpVars, channels, connected, serial_open, snap,
                   laserVars, wr>>

\* disconnect, `self._rx_thread.join(timeout=2.0)' and the rest: the join
\* returns when the thread started last has left its loop, or after two
\* seconds while that thread is still inside a callback; then the port is
\* closed and _connected cleared.
disconnect_join ==
    /\ callpc = "join"
    /\ rx_threads[Len(rx_threads)].pc \in {"exited", "callback"}
    /\ serial_open' = FALSE
    /\ connected' = FALSE
    /\ discpc' = "done"
    /\ Return(call, "True")
    /\ UNCHANGED <<device, settingsVars, rx_threads, cbVars, pumpVars, channels, stop_thread, wire, snap, steps,
                   laserVars, wr>>

\* _receive_loop, `while not self._stop_thread.is_set()' found false.
PumpExit(i) ==
    /\ rx_threads[i].pc = "loop"
    /\ stop_thread
    /\ rx_threads' = [rx_threads EXCEPT ![i].pc = "exited"]
    /\ UNCHANGED <<device, settingsVars, cbVars, pumpVars, channels, connVars, callVars, discpc, laserVars, wr>>

\* _receive_loop, the read: the frames fs arrive whole in the thread's buffer.
PumpRead(i, fs) ==
    /\ rx_threads[i].pc = "loop"
    /\ ~stop_thread
    /\ serial_open
    /\ rxlast.n + InBuffers(rx_threads) + Len(fs) <= MaxReads
    /\ rx_threads' = [rx_threads EXCEPT ![i] = [pc |-> "parse", buf |-> fs, errors |-> 0]]
    /\ UNCHANGED <<device, settingsVars, cbVars, pumpVars, channels, connVars, callVars, discpc, laserVars, wr>>

\* Where a thread goes on with the buffer b: the inner `while len(buffer) >= 6'
\* does not look at the stop flag.
AfterMessage(b) == IF b = <<>> THEN "loop" ELSE "parse"

\* _receive_loop, one message of the inner loop handed to _process_message;
\* the thread stays inside the handler while a callback runs.
PumpDispatch(i) ==
    LET t == rx_threads[i]
        msg == Head(t.buf)
        id == parse_header(msg).msg_id
        calls == RunCallbacks(CallbacksFor(move_complete_callbacks, home_complete_callbacks,
                                           id, msg), ChannelOf(msg))
    IN  /\ t.pc = "parse"
        /\ rxlast' = [n |-> rxlast.n + 1, msg |-> msg]
        /\ channels' = ProcessMessage(channels, id, msg)
        /\ invoked' = calls
        /\ rxerr' = ProcessFails(move_complete_callbacks, home_complete_callbacks, id, msg)
        /\ rx_threads' = [rx_threads EXCEPT ![i] =
                            [t EXCEPT !.buf = Tail(t.buf),
                                      !.pc = IF calls # <<>> THEN "callback"
                                             ELSE AfterMessage(Tail(t.buf))]]
        /\ UNCHANGED <<device, settingsVars, move_complete_callbacks, home_complete_callbacks, sent, pending, buffer,
                       rxpc, dispatched, connVars, callVars, discpc, laserVars, wr>>

\* The callback returns and _process_message with it.
PumpCallbackReturn(i) ==
    /\ rx_threads[i].pc = "callback"
    /\ rx_threads' = [rx_threads EXCEPT ![i].pc = AfterMessage(rx_threads[i].buf)]
    /\ UNCHANGED <<device, settingsVars, cbVars, pumpVars, channels, connVars, callVars, discpc, laserVars, wr>>

\* _receive_loop, `except Exception': the port raises on in_waiting or read
\* (always once it is closed); the error is printed and, after the sleep,
\* the loop goes on.
PumpReadError(i) ==
    /\ rx_threads[i].pc = "loop"
    /\ ~stop_thread
    /\ rx_threads[i].errors < MaxReadErrors
    /\ rx_threads' = [rx_threads EXCEPT ![i].errors = @ + 1]
    /\ UNCHANGED <<device, settingsVars, cbVars, pumpVars, channels, connVars, callVars, discpc, laserVars, wr>>

\* The driver after construction: no port, no receive thread.
InitLife ==
    /\ sent = <<>>
    /\ pending = <<>>
    /\ buffer = <<>>
    /\ rxpc = "poll"
    /\ dispatched = <<>>
    /\ rxlast = [n |-> 0, msg |-> <<>>]
    /\ channels = [n \in Channels |-> InitChannel]
    /\ connected = FALSE
    /\ serial_open = FALSE
    /\ stop_thread = FALSE
    /\ wire = <<>>
    /\ callpc = "idle"
    /\ call = NoCall
    /\ ret = "none"
    /\ snap = NoSnap
    /\ steps = 0
    /\ discpc = "idle"
    /\ wr = [t \in Writers |-> NoWrite]
    /\ move_complete_callbacks = [n \in Channels |-> <<>>]
    /\ home_complete_callbacks = [n \in Channels |-> <<>>]
    /\ invoked = <<>>
    /\ rxerr = FALSE
    /\ rx_threads = <<>>
    /\ InitLaser
    /\ InitSettings
    /\ device = InitDevice

NextLife ==
    \/ \E ok \in BOOLEAN : connect(ok)
    \/ \E wok \in BOOLEAN : disconnect_begin(wok)
    \/ disconnect_join
    \/ \E wok \in BOOLEAN : Identify(1, wok)
    \/ register_home_complete_callback(1, "cb_a")
    \/ \E i \in 1..Len(rx_threads) : PumpExit(i)
    \/ \E i \in 1..Len(rx_threads), n \in 1..MaxReads :
         \E fs \in [1..n -> LifeFrames] : PumpRead(i, fs)
    \/ \E i \in 1..Len(rx_threads) : PumpDispatch(i)
    \/ \E i \in 1..Len(rx_threads) : PumpCallbackReturn(i)
    \/ \E i \in 1..Len(rx_threads) : PumpReadError(i)

SpecLife == InitLife /\ [][NextLife]_vars

\* ------------------------------------------------------ the codec, alone

MGMSG_MOT_SET_POSCOUNTER == 1040        \* 0x0410

\* APTMessage.parse_position_counter: ValueError below 12 bytes, then
\* struct.unpack('<HHI', data[6:12]); the format takes 8 bytes and the
\* slice has 6, which is struct.error (ok = FALSE).
parse_position_counter(data) ==
    IF Len(data) < 12 THEN [ok |-> FALSE]
    ELSE LET b == SubSeq(data, 7, 12) IN
         IF Len(b) # 2 + 2 + 4 THEN [ok |-> FALSE]
         ELSE [ok |-> TRUE, channel |-> UnpackU16(b, 3), position |-> UnpackU32(b, 5)]

\* APTMessage.parse_velocity_params: struct.unpack('<HIII', data[6:20])
parse_velocity_params(data) ==
    IF Len(data) < 20 THEN [ok |-> FALSE]
    ELSE [ok      |-> TRUE,
          channel |-> UnpackU16(data, 7),
          min_vel |-> UnpackU32(data, 9),
          max_vel |-> UnpackU32(data, 13),
          accel   |-> UnpackU32(data, 17)]

\* APTProtocol.cmd_set_position_counter
cmd_set_position_counter(c, pos_mm) ==
    build_with_data(MGMSG_MOT_SET_POSCOUNTER, ChanDest(c),
                    PackU16(1) \o PackU32(position_to_apt(pos_mm)), HOST)

\* round(a / b) as Python rounds: to the nearest whole number, a tie to the
\* even one.
RoundDiv(a, b) ==
    LET q == a \div b
        r == a % b
    IN  IF 2 * r > b \/ (2 * r = b /\ q % 2 = 1) THEN q + 1 ELSE q

\* Inputs of the conversions.
HeaderIds == {0, MGMSG_HW_REQ_INFO, 255, 256, MGMSG_MOT_MOVE_HOMED, 65535}
ByteInputs == {0, 1, 255}
PositionInputs == {<<0, 1>>, <<10, 1>>, <<43, 1000>>, <<1, 20000>>, <<110, 1>>}
PeriodInputs == (16667..16680) \cup {50000, 60000} \cup (124995..125001) \cup {0, 10000}

\* One conversion begins: its arguments are kept in `call', the bytes built
\* from them in `wire'; nothing has been parsed yet.
Encoding ==
    /\ callpc = "idle"
    /\ callpc' = "encoded"
    /\ ret' = "none"
    /\ UNCHANGED <<device, settingsVars, rx_threads, cbVars, pumpVars, channels, connected, serial_open, stop_thread,
                   snap, steps, discpc, laserVars, wr>>

EncodeHeader(msg_id, param1, param2, dest, source) ==
    /\ Encoding
    /\ call' = [name |-> "build_header_only", msg_id |-> msg_id, param1 |-> param1,
                param2 |-> param2, dest |-> dest, source |-> source]
    /\ wire' = build_header_only(msg_id, param1, param2, dest, source)

\* A status update as the controller packs it: struct '<HIII' behind the header.
EncodeStatus(channel, position, enc_count, status) ==
    /\ Encoding
    /\ call' = [name |-> "status_update", channel |-> channel, position |-> position,
                enc_count |-> enc_count, status |-> status]
    /\ wire' = build_with_data(MGMSG_MOT_GET_STATUSUPDATE, CHANNEL_1,
                               PackU16(channel) \o PackU32(position) \o PackU32(enc_count)
                                   \o PackBits32(status), DEST_USB)

EncodePosition(c, pos_mm) ==
    /\ Encoding
    /\ call' = [name |-> "cmd_set_position_counter", ch |-> c, pos_mm |-> pos_mm]
    /\ wire' = cmd_set_position_counter(c, pos_mm)

EncodeVelocity(c, vel, accel) ==
    /\ Encoding
    /\ call' = [name |-> "cmd_set_velocity_params", ch |-> c, vel |-> vel, accel |-> accel]
    /\ wire' = cmd_set_velocity_params(c, vel, accel)

EncodeMove(c, pos_mm) ==
    /\ Encoding
    /\ call' = [name |-> "cmd_move_absolute", ch |-> c, pos_mm |-> pos_mm]
    /\ wire' = cmd_move_absolute(c, pos_mm)

\* HeliosDriver.set_frequency_hz, its first lines: the set command and the
\* period whose text is the expected reply.
EncodeFrequency(freq_hz) ==
    /\ Encoding
    /\ call' = [name |-> "frequency_to_period_ns", freq_hz |-> freq_hz,
                period |-> frequency_to_period_ns(freq_hz)]
    /\ wire' = cmd_set_frequency_hz(freq_hz).cmd

\* The matching parser applied to the bytes; for a move command what the
\* receive loop reads from such a frame; for a period the way back.
Decode ==
    /\ callpc = "encoded"
    /\ callpc' = "idle"
    /\ ret' = CASE call.name = "build_header_only" -> parse_header(wire)
                [] call.name = "status_update" -> parse_status_update(wire)
                [] call.name = "cmd_set_position_counter" -> parse_position_counter(wire)
                [] call.name = "cmd_set_velocity_params" -> parse_velocity_params(wire)
                [] call.name = "cmd_move_absolute" ->
                       [header |-> parse_header(wire), channel |-> ChannelOf(wire),
                        position |-> UnpackU32(wire, 9)]
                [] call.name = "frequency_to_period_ns" ->
                       period_ns_to_frequency(call.period.period_ns)
    /\ UNCHANGED <<device, settingsVars, rx_threads, cbVars, pumpVars, channels, connVars, call, snap, steps, discpc,
                   laserVars, wr>>

\* The conversion `name' has been applied both ways.
Decoded(name) == callpc = "idle" /\ call.name = name

NextCodec ==
    \/ \E msg_id \in HeaderIds, param1 \in ByteInputs, param2 \in ByteInputs,
          dest \in {CHANNEL_1, DEST_USB, 255}, source \in {0, HOST, DEST_USB} :
            EncodeHeader(msg_id, param1, param2, dest, source)
    \/ \E channel \in {1, 65535}, position \in {0, 200000, 2147483647}, enc_count \in {0, 7},
          status \in StatusInputs : EncodeStatus(channel, position, enc_count, status)
    \/ \E c \in Channels, pos_mm \in PositionInputs : EncodePosition(c, pos_mm)
    \/ \E c \in Channels, vel \in {1, 15}, accel \in {5, 15} : EncodeVelocity(c, vel, accel)
    \/ \E c \in Channels, pos_mm \in PositionInputs : EncodeMove(c, pos_mm)
    \/ \E freq_hz \in PeriodInputs : EncodeFrequency(freq_hz)
    \/ Decode

SpecCodec == InitChan /\ [][NextCodec]_vars

\* ------------------------------------------------ stage settings: operations

\* self.settings[key] of the instance s
Section(s, key) == DEFAULT_SETTINGS[s.settings[key]]

\* json.dump writes a float with repr() and an int with str(): "1.5", "2".
NumberText(x) ==
    IF x.float THEN Digits(x.v \div 10) \o <<46>> \o Digits(x.v % 10)
    ELSE Digits(x.v \div 10)

\* (mutant) json.load reading every number as an int
ParseNumber_Whole(text) ==
    IF \E i \in 1..Len(text) : text[i] = 46
    THEN LET dot == CHOOSE i \in 1..Len(text) : text[i] = 46
         IN  PyInt(DigitsValue(SubSeq(text, 1, dot - 1)))
    ELSE PyInt(DigitsValue(text))

\* json.load reads a number with a '.' as a float and any other as an int.
ParseNumber(text) ==
    IF \E i \in 1..Len(text) : text[i] = 46
    THEN LET dot == CHOOSE i \in 1..Len(text) : text[i] = 46
         IN  PyFloat(10 * DigitsValue(SubSeq(text, 1, dot - 1))
                   + DigitsValue(SubSeq(text, dot + 1, Len(text))))
    ELSE PyInt(DigitsValue(text))

\* json.dump(self.settings, f): the document, every number as its text.
json_dump(s) ==
    [velocity     |-> [a \in Axes |-> NumberText(Section(s, "velocity")[a])],
     acceleration |-> [a \in Axes |-> NumberText(Section(s, "acceleration")[a])],
     trigger      |-> [a \in Axes |->
                         [k \in DOMAIN DefaultTrigger |->
                             NumberText(Section(s, "trigger")[a][k])]],
     digital_io   |-> [output_bits |->
                         NumberText(Section(s, "digital_io").output_bits)]]

\* json.load(f) of such a document.
json_load(doc) ==
    [velocity     |-> [a \in Axes |-> ParseNumber(doc.velocity[a])],
     acceleration |-> [a \in Axes |-> ParseNumber(doc.acceleration[a])],
     trigger      |-> [a \in Axes |->
                         [k \in DOMAIN DefaultTrigger |-> ParseNumber(doc.trigger[a][k])]],
     digital_io   |-> [output_bits |-> ParseNumber(doc.digital_io.output_bits)]]

\* One more StageSettings operation begins.
SettingsOp ==
    /\ steps < MaxSettingsOps
    /\ steps' = steps + 1
    /\ UNCHANGED <<device, pumpVars, channels, connVars, callpc, call, ret, snap, discpc,
                   laserVars, wr, cbVars, rx_threads>>

\* StageSettings._merge_settings: dict.update on the dictionaries the
\* instance refers to.  A document written by save() has every key.
merge_settings(s, loaded) ==
    [DEFAULT_SETTINGS EXCEPT
        ![s.settings.velocity] = loaded.velocity,
        ![s.settings.acceleration] = loaded.acceleration,
        ![s.settings.trigger] = loaded.trigger,
        ![s.settings.digital_io] = loaded.digital_io]

\* StageSettings.__init__ with load(): a missing file and a file json.load
\* cannot read (an empty one) both leave the settings as copied.
Construct(path) ==
    LET s == [settings_file |-> path, settings |-> ShallowCopy] IN
    /\ SettingsOp
    /\ Len(stores) < MaxStores
    /\ stores' = Append(stores, s)
    /\ DEFAULT_SETTINGS' = IF files[path].state = "json"
                           THEN merge_settings(s, json_load(files[path].doc))
                           ELSE DEFAULT_SETTINGS
    /\ UNCHANGED files

\* StageSettings.save: os.makedirs(os.path.dirname(file)) raises for a name
\* without a directory and save returns False; otherwise the file holds
\* the dumped document.  `saved' remembers what the instance held (ghost).
save(i) ==
    LET s == stores[i] IN
    /\ SettingsOp
    /\ files' = IF dirname(s.settings_file) = "" THEN files
                ELSE [files EXCEPT ![s.settings_file] =
                        [state |-> "json", doc |-> json_dump(s),
                         saved |-> [k \in DOMAIN ClassDefaults |-> Section(s, k)]]]
    /\ UNCHANGED <<DEFAULT_SETTINGS, stores>>

\* StageSettings.set_velocity / set_acceleration
set_velocity(i, axis, velocity) ==
    /\ SettingsOp
    /\ DEFAULT_SETTINGS' =
        IF axis \in Axes
        THEN [DEFAULT_SETTINGS EXCEPT ![stores[i].settings.velocity][axis] = velocity]
        ELSE DEFAULT_SETTINGS
    /\ UNCHANGED <<stores, files>>

set_acceleration(i, axis, acceleration) ==
    /\ SettingsOp
    /\ DEFAULT_SETTINGS' =
        IF axis \in Axes
        THEN [DEFAULT_SETTINGS EXCEPT ![stores[i].settings.acceleration][axis] = acceleration]
        ELSE DEFAULT_SETTINGS
    /\ UNCHANGED <<stores, files>>

\* StageSettings.set_trigger_config (the other arguments at their defaults)
set_trigger_config(i, axis, mode, start_pos_fwd) ==
    /\ SettingsOp
    /\ DEFAULT_SETTINGS' =
        IF axis \in Axes
        THEN [DEFAULT_SETTINGS EXCEPT ![stores[i].settings.trigger][axis] =
                [mode |-> mode, polarity |-> PyInt(1),
                 start_pos_fwd |-> start_pos_fwd, start_pos_rev |-> PyFloat(0),
                 interval_fwd |-> PyFloat(0), interval_rev |-> PyFloat(0)]]
        ELSE DEFAULT_SETTINGS
    /\ UNCHANGED <<stores, files>>

\* StageSettings.set_trigger_mode (the axis is always in the dictionary)
set_trigger_mode(i, axis, mode) ==
    /\ SettingsOp
    /\ DEFAULT_SETTINGS' =
        IF axis \in Axes
        THEN [DEFAULT_SETTINGS EXCEPT ![stores[i].settings.trigger][axis].mode = mode]
        ELSE DEFAULT_SETTINGS
    /\ UNCHANGED <<stores, files>>

\* StageSettings.get_velocity / get_acceleration / get_trigger_config /
\* get_trigger_mode, for an axis of Axes
get_velocity(s, axis) == Section(s, "velocity")[axis]
get_acceleration(s, axis) == Section(s, "acceleration")[axis]
get_trigger_config(s, axis) == Section(s, "trigger")[axis]
get_trigger_mode(s, axis) == Section(s, "trigger")[axis].mode

\* tempfile.NamedTemporaryFile(delete=False): the file exists and is empty.
NamedTemporaryFile(path) ==
    /\ files[path].state = "absent"
    /\ dirname(path) # ""
    /\ files' = [files EXCEPT ![path].state = "empty"]
    /\ UNCHANGED <<device, DEFAULT_SETTINGS, stores, pumpVars, channels, connVars, callVars,
                   discpc, laserVars, wr, cbVars, rx_threads>>

AxisInputs == {"x_axis", "z_axis", "w_axis"}

InitSettingsOnly ==
    /\ sent = <<>>
    /\ pending = <<>>
    /\ InitConnected

NextSettings ==
    \/ \E p \in Paths : NamedTemporaryFile(p)
    \/ \E p \in Paths : Construct(p)
    \/ \E i \in 1..Len(stores) : save(i)
    \/ \E i \in 1..Len(stores), a \in AxisInputs, v \in {PyFloat(15), PyFloat(20)} :
            set_velocity(i, a, v)
    \/ \E i \in 1..Len(stores), a \in AxisInputs : set_acceleration(i, a, PyFloat(100))
    \/ \E i \in 1..Len(stores), a \in AxisInputs : set_trigger_config(i, a, PyInt(2), PyFloat(105))
    \/ \E i \in 1..Len(stores), a \in AxisInputs : set_trigger_mode(i, a, PyInt(1))

SpecSettings == InitSettingsOnly /\ [][NextSettings]_vars

\* ------------------------------- the pump between update and notification

\* _receive_loop / _process_message on a frame that arrives whole into an
\* empty buffer, up to the state update of its branch: the pump stands in
\* front of `for callback in ...'.
RxUpdate(frame) ==
    /\ steps < MaxSteps
    /\ rxpc = "poll"
    /\ ~stop_thread
    /\ serial_open
    /\ buffer = <<>>
    /\ CanExtract(frame)
    /\ MsgLen(frame) = Len(frame)
    /\ steps' = steps + 1
    /\ rxpc' = "notify"
    /\ rxlast' = [n |-> rxlast.n + 1, msg |-> frame]
    /\ channels' = ProcessMessage(channels, parse_header(frame).msg_id, frame)
    /\ invoked' = <<>>
    /\ rxerr' = FALSE
    /\ UNCHANGED <<device, settingsVars, rx_threads, move_complete_callbacks, home_complete_callbacks,
                   sent, pending, buffer, dispatched, connVars, callpc, call, ret, snap,
                   discpc, laserVars, wr>>

\* The rest of _process_message for that message: the callbacks of its
\* channel and kind are called, then the pump is back at the loop head.
RxNotify ==
    /\ rxpc = "notify"
    /\ rxpc' = "poll"
    /\ invoked' = RunCallbacks(CallbacksFor(move_complete_callbacks, home_complete_callbacks,
                                            parse_header(rxlast.msg).msg_id, rxlast.msg),
                               ChannelOf(rxlast.msg))
    /\ rxerr' = ProcessFails(move_complete_callbacks, home_complete_callbacks,
                             parse_header(rxlast.msg).msg_id, rxlast.msg)
    /\ UNCHANGED <<device, settingsVars, rx_threads, move_complete_callbacks, home_complete_callbacks,
                   sent, pending, buffer, dispatched, rxlast, channels, connVars, callVars,
                   discpc, laserVars, wr>>

\* A status update that makes channel 1 ready, and the two completion
\* messages for channel 1.
NotifyFrames ==
    {StatusFrame(CHANNEL_1, 200000, {HOMED, MOTOR_ENABLED}),
     build_with_data(MGMSG_MOT_MOVE_COMPLETED, CHANNEL_1,
                     StatusPayload(200000, 200000, {HOMED, MOTOR_ENABLED}), DEST_USB),
     build_header_only(MGMSG_MOT_MOVE_HOMED, 0, 0, CHANNEL_1, DEST_USB)}

NextNotify ==
    \/ \E f \in NotifyFrames : RxUpdate(f)
    \/ RxNotify
    \/ \E cb \in Callbacks : register_move_complete_callback(1, cb)
    \/ \E cb \in Callbacks : register_home_complete_callback(1, cb)
    \/ \E wok \in BOOLEAN : HomeChannel(1, wok)
    \/ \E wok \in BOOLEAN : MoveAbsolute(1, <<10, 1>>, wok)

SpecNotify == InitChan /\ [][NextNotify]_vars

\* ------------------------- blocking motion calls against the controller

\* Frames the controller has sent and the pump has not read yet, at most.
MaxInFlight == 2

\* The length of the command that starts at the head of w: the motion
\* commands with a position carry six data bytes.
DeviceCmdLen(w) ==
    IF parse_header(w).msg_id \in {MGMSG_MOT_MOVE_ABSOLUTE, MGMSG_MOT_MOVE_RELATIVE}
    THEN HeaderLen + 6 ELSE HeaderLen

\* The controller reads the next command from its line and starts what it
\* asks for (ghost): a homing, which clears the homed state, or a move.
DeviceStart ==
    LET cmd == Drop(wire, device.read)
        id == parse_header(cmd).msg_id
        c == cmd[5] - ChannelDestBase
    IN
    /\ device.read < Len(wire)
    /\ device' =
        IF c \notin Channels THEN [device EXCEPT !.read = @ + DeviceCmdLen(cmd)]
        ELSE IF id = MGMSG_MOT_MOVE_HOME
        THEN [device EXCEPT !.read = @ + DeviceCmdLen(cmd),
                            !.motion[c] = "homing", !.homed[c] = FALSE]
        ELSE IF id \in {MGMSG_MOT_MOVE_ABSOLUTE, MGMSG_MOT_MOVE_RELATIVE}
        THEN [device EXCEPT !.read = @ + DeviceCmdLen(cmd), !.motion[c] = "moving"]
        ELSE [device EXCEPT !.read = @ + DeviceCmdLen(cmd)]
    /\ UNCHANGED <<settingsVars, rx_threads, cbVars, pumpVars, channels, connVars, callVars,
                   discpc, laserVars, wr>>

\* The status word the controller reports for channel c (ghost).
DeviceStatusBits(c) ==
    {MOTOR_ENABLED}
    \cup (IF device.homed[c] THEN {HOMED} ELSE {})
    \cup (IF device.motion[c] = "moving" THEN {IN_MOTION_FORWARD} ELSE {})
    \cup (IF device.motion[c] = "homing" THEN {HOMING, IN_MOTION_REVERSE} ELSE {})

\* The controller sends its periodic status update for channel c (ghost).
DeviceStatus(c) ==
    /\ Len(device.out) < MaxInFlight
    /\ device' = [device EXCEPT
                    !.out = Append(@, StatusFrame(ChanDest(c), 200000, DeviceStatusBits(c)))]
    /\ UNCHANGED <<settingsVars, rx_threads, cbVars, pumpVars, channels, connVars, callVars,
                   discpc, laserVars, wr>>

\* The controller finishes the move or homing of channel c and sends the
\* completion message (ghost).
DeviceFinish(c) ==
    /\ device.motion[c] # "idle"
    /\ Len(device.out) < MaxInFlight
    /\ device' =
        IF device.motion[c] = "homing"
        THEN [device EXCEPT !.motion[c] = "idle", !.homed[c] = TRUE,
                !.out = Append(@, build_header_only(MGMSG_MOT_MOVE_HOMED, 0, 0,
                                                    ChanDest(c), DEST_USB))]
        ELSE [device EXCEPT !.motion[c] = "idle",
                !.out = Append(@, build_with_data(MGMSG_MOT_MOVE_COMPLETED, ChanDest(c),
                                    StatusPayload(200000, 200000, DeviceStatusBits(c)),
                                    DEST_USB))]
    /\ UNCHANGED <<settingsVars, rx_threads, cbVars, pumpVars, channels, connVars, callVars,
                   discpc, laserVars, wr>>

\* _receive_loop on the oldest frame the controller has sent, as WaitDeliver.
DeviceDeliver ==
    LET frame == Head(device.out) IN
    /\ device.out # <<>>
    /\ steps < MaxSteps
    /\ rxpc = "poll"
    /\ ~stop_thread
    /\ serial_open
    /\ buffer = <<>>
    /\ CanExtract(frame)
    /\ MsgLen(frame) = Len(frame)
    /\ device' = [device EXCEPT !.out = Tail(@)]
    /\ steps' = steps + 1
    /\ rxlast' = [n |-> rxlast.n + 1, msg |-> frame]
    /\ channels' = ProcessMessage(channels, parse_header(frame).msg_id, frame)
    /\ invoked' = RunCallbacks(CallbacksFor(move_complete_callbacks, home_complete_callbacks,
                                            parse_header(frame).msg_id, frame), ChannelOf(frame))
    /\ rxerr' = ProcessFails(move_complete_callbacks, home_complete_callbacks,
                             parse_header(frame).msg_id, frame)
    /\ call' = IF Waiting /\ call.elapsed < TimeoutTicks /\ CompletesCall(call, frame)
               THEN [call EXCEPT !.completed = TRUE]
               ELSE call
    /\ UNCHANGED <<settingsVars, rx_threads, move_complete_callbacks, home_complete_callbacks,
                   sent, pending, buffer, rxpc, dispatched, connVars, callpc, ret, snap,
                   discpc, laserVars, wr>>

\* The controller has read every command written to it and channel c is at
\* rest (ghost).
DeviceAtRest(c) == device.read = Len(wire) /\ device.motion[c] = "idle"

NextStale ==
    \/ DeviceStart
    \/ DeviceStatus(1)
    \/ DeviceFinish(1)
    \/ DeviceDeliver
    \/ \E wok \in BOOLEAN : HomeChannelBlocking(1, wok)
    \/ \E wok \in BOOLEAN : MoveAbsoluteBlocking(1, <<10, 1>>, wok)
    \/ \E wok \in BOOLEAN : MoveRelativeBlocking(1, <<1, 2>>, wok)
    \/ WaitTime
    \/ WaitPoll
    \/ \E k \in 1..2 : WaitSleep(k)

SpecStale == InitChan /\ [][NextStale]_vars

\* ----------------------------------------------- moves and readiness

\* Status updates for channel 1 that make it ready, not enabled, not homed,
\* and ready but for a motion error.
MoveFrames ==
    {StatusFrame(CHANNEL_1, 200000, S) :
        S \in {{HOMED, MOTOR_ENABLED}, {HOMED}, {MOTOR_ENABLED},
               {HOMED, MOTOR_ENABLED, MOTION_ERROR}}}

NextMove ==
    \/ \E f \in MoveFrames : RxDeliver(f)
    \/ \E c \in CallChannels, wok \in BOOLEAN : HomeChannel(c, wok)
    \/ \E c \in CallChannels, wok \in BOOLEAN : MoveAbsolute(c, <<10, 1>>, wok)
    \/ \E c \in CallChannels, wok \in BOOLEAN : MoveRelative(c, <<1, 2>>, wok)

SpecMove == InitChan /\ [][NextMove]_vars

\* ------------------------------------------ laser queries, two threads

\* The queries the threads make.
LaserQueryCmds == {cmd_query_laser_enable, cmd_query_frequency}

\* Index of the first CR of w after position from, 0 when there is none.
NextCR(w, from) ==
    IF \E i \in (from + 1)..Len(w) : w[i] = CR
    THEN CHOOSE i \in (from + 1)..Len(w) : w[i] = CR /\ \A j \in (from + 1)..(i - 1) : w[j] # CR
    ELSE 0

\* How many commands (CR-terminated) w holds.
Commands(w) == Cardinality({i \in 1..Len(w) : w[i] = CR})

\* The laser's answer to a query: the enable state for LDO, the period in
\* ns for LDF.
LaserReply(cmd) ==
    IF cmd = LDO THEN <<IF device.laser_on THEN 49 ELSE 48, CR>>
    ELSE Digits(20000) \o <<CR>>

\* The laser takes the next command off its line.  A set command LDO v
\* switches the emission; a query is answered, the reply arriving in the
\* port's input buffer (`for' is the ghost index of the command answered);
\* any other command is taken without a reply.
LaserDevice ==
    LET e == NextCR(l_wire, device.l_read)
        cmd == SubSeq(l_wire, device.l_read + 1, e - 1)
        n == Commands(SubSeq(l_wire, 1, e))
    IN  /\ e # 0
        /\ device' =
            IF cmd \in {LDO, LDF}
            THEN [device EXCEPT !.l_read = e,
                                !.l_in = Append(@, [for |-> n, bytes |-> LaserReply(cmd)])]
            ELSE IF Len(cmd) > 3 /\ SubSeq(cmd, 1, 3) = LDO
                 THEN [device EXCEPT !.l_read = e, !.laser_on = (cmd[Len(cmd)] = 49)]
                 ELSE [device EXCEPT !.l_read = e]
        /\ UNCHANGED <<settingsVars, rx_threads, cbVars, pumpVars, channels, connVars, callVars,
                       discpc, laserVars, wr>>

\* HeliosDriver._query entered by thread t: the is_connected check.
QueryBegin(t, cmd) ==
    /\ wr[t].pc = "idle"
    /\ steps < MaxWrites
    /\ steps' = steps + 1
    /\ wr' = [wr EXCEPT ![t] =
                IF ~l_is_connected
                THEN [pc |-> "idle", dev |-> "laser", cmd |-> cmd, at |-> 0, query |-> TRUE,
                      own |-> 0, response |-> [ok |-> FALSE, text |-> <<>>, for |-> 0]]
                ELSE [pc |-> "qlock", dev |-> "laser", cmd |-> cmd, at |-> 0, query |-> TRUE,
                      own |-> 0, response |-> [ok |-> FALSE, text |-> <<>>, for |-> 0]]]
    /\ UNCHANGED <<device, settingsVars, rx_threads, cbVars, pumpVars, channels, connVars,
                   callpc, call, ret, snap, discpc, laserVars>>

\* _query, `with self._comm_lock:' entered and `reset_input_buffer()'.
QueryReset(t) ==
    /\ wr[t].pc = "qlock"
    /\ comm_lock = "free"
    /\ comm_lock' = t
    /\ device' = [device EXCEPT !.l_in = <<>>]
    /\ wr' = [wr EXCEPT ![t].pc = "qwrite"]
    /\ UNCHANGED <<settingsVars, rx_threads, cbVars, pumpVars, channels, connVars, callVars, discpc,
                   l_connected, l_serial_open, l_wire, l_cache, l_pc, l_call, l_ret>>

\* _query, `self._serial.write(command)': the port takes the next k bytes.
QueryWrite(t, k) ==
    LET w == wr[t]
        last == w.at + k = Len(w.cmd)
    IN  /\ w.pc = "qwrite"
        /\ k \in 1..(Len(w.cmd) - w.at)
        /\ l_wire' = l_wire \o SubSeq(w.cmd, w.at + 1, w.at + k)
        /\ wr' = [wr EXCEPT ![t].at = w.at + k,
                            ![t].pc = IF last THEN "read" ELSE "qwrite",
                            ![t].own = IF last THEN Commands(l_wire') ELSE 0]
        /\ UNCHANGED <<device, settingsVars, rx_threads, cbVars, pumpVars, channels, connVars, callVars,
                       discpc, l_connected, l_serial_open, comm_lock, l_cache, l_pc, l_call, l_ret>>

\* _query, `response = self._serial.read_until(b'\r')' returns the bytes up
\* to the first CR in the input buffer, and the parsed text is the result.
QueryRead(t) ==
    LET r == Head(device.l_in) IN
    /\ wr[t].pc = "read"
    /\ device.l_in # <<>>
    /\ device' = [device EXCEPT !.l_in = Tail(@)]
    /\ wr' = [wr EXCEPT ![t].pc = "unlock",
                        ![t].response = [ok |-> TRUE, text |-> parse_response(r.bytes),
                                         for |-> r.for]]
    /\ UNCHANGED <<settingsVars, rx_threads, cbVars, pumpVars, channels, connVars, callVars, discpc,
                   laserVars>>

\* _query, read_until returns nothing after the port's timeout: `if not
\* response: return None'.
QueryTimeout(t) ==
    /\ wr[t].pc = "read"
    /\ device.l_in = <<>>
    /\ wr' = [wr EXCEPT ![t].pc = "unlock"]
    /\ UNCHANGED <<device, settingsVars, rx_threads, cbVars, pumpVars, channels, connVars, callVars,
                   discpc, laserVars>>

NextQuery ==
    \/ \E t \in Writers, cmd \in LaserQueryCmds : QueryBegin(t, cmd)
    \/ \E t \in Writers : QueryReset(t)
    \/ \E t \in Writers, k \in 1..HeaderLen : QueryWrite(t, k)
    \/ \E t \in Writers : QueryRead(t)
    \/ \E t \in Writers : QueryTimeout(t)
    \/ \E t \in Writers, cmd \in LaserWriteCmds : SendBegin(t, "laser", cmd)
    \/ \E t \in Writers : LockAcquire(t)
    \/ \E t \in Writers, k \in 1..HeaderLen : WriteSome(t, k)
    \/ \E t \in Writers : LockRelease(t)
    \/ LaserDevice

SpecQuery == InitChan /\ [][NextQuery]_vars

\* --------------------------------------------- restoring factory settings

HPR == <<72, 80, 82>>

\* HeliosProtocol.cmd_restore_factory
cmd_restore_factory == build_command(HPR, <<>>)

\* HeliosDriver.restore_factory_settings: refused while the cached enable
\* flag is set, otherwise HPR is handed to _send_command.
restore_factory_settings(wok) ==
    LET sent_ok == l_is_connected /\ wok IN
    /\ l_pc["caller"] = "idle"
    /\ comm_lock = "free"
    /\ steps < MaxLaserOps
    /\ steps' = steps + 1
    /\ l_wire' = IF ~l_cache.laser_enabled /\ sent_ok THEN l_wire \o cmd_restore_factory ELSE l_wire
    /\ l_ret' = [l_ret EXCEPT !["caller"] = Bool(~l_cache.laser_enabled /\ sent_ok)]
    /\ l_call' = [l_call EXCEPT !["caller"] = [name |-> "restore_factory_settings"]]
    /\ UNCHANGED <<device, settingsVars, rx_threads, cbVars, pumpVars, channels, connVars, callpc,
                   call, ret, snap, discpc, l_connected, l_serial_open, comm_lock, l_cache, l_pc, wr>>

\* The laser has taken every command written so far off its line.
LaserCaughtUp == device.l_read = Len(l_wire)

\* set_laser_enable step by step, with a laser that switches when it takes
\* the set command and that answers the verifying query with its state, or
\* not within the port's timeout.
NextRestore ==
    \/ \E enabled \in BOOLEAN : SetLaserEnable(enabled)
    \/ \E wok \in BOOLEAN : LvSend(wok)
    \/ LaserCaughtUp /\ LvQuery(LaserReply(LDO))
    \/ LvQuery(<<>>)
    \/ \E wok \in BOOLEAN : restore_factory_settings(wok)
    \/ LaserDevice

SpecRestore == InitChan /\ [][NextRestore]_vars

\* --------------------------------------------- homing all channels, waiting

\* BBD203Driver.home_all_channels(wait=True, timeout) up to its wait loop:
\* home_channel(channel, wait=False) on every enabled channel, the results
\* collected in `success', and the wait loop entered whatever they were.
\* The record keeps, as ghosts, the channels that were enabled at the call
\* and those whose home command was written.
HomeAllChannelsBlocking(w) ==
    LET en(c) == channels[c].enabled
        w1 == IF en(1) THEN SendWire(wire, cmd_move_home(1), w[1]) ELSE wire
        w2 == IF en(2) THEN SendWire(w1, cmd_move_home(2), w[2]) ELSE w1
        w3 == IF en(3) THEN SendWire(w2, cmd_move_home(3), w[3]) ELSE w2
    IN
    /\ CallerIdle
    /\ steps' = steps + 1
    /\ channels' = [c \in Channels |->
                        IF en(c) THEN home_channel_flags(channels[c]) ELSE channels[c]]
    /\ wire' = w3
    /\ callpc' = "w_time"
    /\ call' = [name |-> "home_all_channels", ch |-> 0, elapsed |-> 0, entered |-> TRUE,
                polls |-> 0, sawdone |-> FALSE, completed |-> FALSE,
                enabled |-> {c \in Channels : en(c)},
                started |-> {c \in Channels : en(c) /\ SendOk(w[c])}]
    /\ UNCHANGED <<device, settingsVars, rx_threads, cbVars, pumpVars, connected, serial_open,
                   stop_thread, ret, snap, discpc, laserVars, wr>>

\* home_all_channels, `all(ch.homed for ch in self.channels.values() if
\* ch.enabled)'
all_homed(chs) == \A c \in Channels : chs[c].enabled => chs[c].homed

\* home_all_channels, `if all_homed: return True'
WaitPollAll ==
    /\ callpc = "w_poll"
    /\ call.name = "home_all_channels"
    /\ LET done == all_homed(channels)
           rec == [call EXCEPT !.polls = @ + 1, !.sawdone = done]
       IN  IF done
           THEN Return(rec, "True")
           ELSE /\ callpc' = "w_sleep"
                /\ call' = rec
                /\ UNCHANGED ret
    /\ UNCHANGED <<device, settingsVars, rx_threads, cbVars, pumpVars, channels, connVars, snap,
                   steps, discpc, laserVars, wr>>

\* What the controller sends: status updates that report channels 1 and 2
\* enabled, channel 1 enabled and homed, and the homed message of channel 1.
HomeAllFrames ==
    {StatusFrame(CHANNEL_1, 0, {MOTOR_ENABLED}),
     StatusFrame(CHANNEL_1 + 1, 0, {MOTOR_ENABLED}),
     StatusFrame(CHANNEL_1, 0, {MOTOR_ENABLED, HOMED}),
     build_header_only(MGMSG_MOT_MOVE_HOMED, 0, 0, CHANNEL_1, DEST_USB)}

NextHomeAll ==
    \/ \E f \in HomeAllFrames : WaitDeliver(f)
    \/ \E w \in [Channels -> BOOLEAN] : HomeAllChannelsBlocking(w)
    \/ WaitTime
    \/ WaitPollAll
    \/ \E k \in 1..2 : WaitSleep(k)

SpecHomeAll == InitChan /\ [][NextHomeAll]_vars

\* ------------------------------------------------------------ the claims

\* What the pump dispatches when a byte string is fed to it whole.
RECURSIVE PumpWhole(_)
PumpWhole(buf) ==
    IF CanExtract(buf)
    THEN <<Take(buf, MsgLen(buf))>> \o PumpWhole(Drop(buf, MsgLen(buf)))
    ELSE <<>>

\* All transmitted bytes have been read and the pump is back at its loop head.
PumpQuiet == pending = <<>> /\ rxpc = "poll"

\* C1: a single complete message, fed in any chunks, is dispatched exactly
\* once, byte for byte as when it is fed whole.
C1_SplitTolerantOneMessage ==
    (Len(sent) = 1 /\ PumpQuiet) =>
        /\ dispatched = PumpWhole(Flatten(sent))
        /\ dispatched = <<sent[1]>>

\* The head of the buffer is not a complete message: fewer than 6 bytes, or
\* a length field that is a byte count 1..255 with the payload not all there.
HeadIncomplete(buf) ==
    \/ Len(buf) < 6
    \/ buf[4] = 0 /\ buf[3] >= 1 /\ Len(buf) < 6 + buf[3]

\* C2: in every step taken while the head of the buffer is incomplete, the
\* pump dispatches nothing and removes nothing from the buffer (the buffer
\* only grows at its end).
C2_NoPartialDispatch ==
    [][HeadIncomplete(buffer) =>
          /\ dispatched' = dispatched
          /\ Len(buffer') >= Len(buffer)
          /\ Take(buffer', Len(buffer)) = buffer]_vars

\* C2 witness: a message was dispatched, then the pump went back to polling
\* holding a data-bearing header whose payload has not all arrived.
C2_Witness ==
    /\ rxpc = "poll"
    /\ Len(dispatched) >= 1
    /\ Len(buffer) >= 6
    /\ HeadIncomplete(buffer)
    /\ pending # <<>>

\* C3: a stream of well-formed frames is dispatched frame by frame, in
\* order, each once (header-only frames as 6 bytes whatever their parameters).
C3_FramesDispatchedInOrder == PumpQuiet => dispatched = sent

\* How many times the command cmd occurs in the bytes w.
CountCmd(w, cmd) ==
    Cardinality({i \in 1..(Len(w) - Len(cmd) + 1) : SubSeq(w, i, i + Len(cmd) - 1) = cmd})

\* The call in progress or last finished is a motor / laser set-and-verify.
MotorVerifyCall == call.name = "enable_channel" /\ call.ch \in {1, 2, 3}
LaserVerifyCall == l_call["caller"].name = "set_laser_enable"

\* C4: a set-and-verify call (motor enable_channel, laser set_laser_enable)
\* writes its set command at most 3 times and compares at most one observed
\* value per set; when it has returned, it returned success iff one of the
\* observed values equals the expected one.
C4_SetAndVerifyBounded ==
    /\ MotorVerifyCall =>
        /\ CountCmd(Drop(wire, call.w0),
                    <<16, 2, IF call.enable THEN 1 ELSE 2, 1, 32 + call.ch, 1>>) = call.sets
        /\ call.sets <= 3
        /\ Len(call.obs) <= call.sets
        /\ callpc = "idle" =>
            (ret = "True" <=> \E i \in 1..Len(call.obs) : call.obs[i] = call.enable)
    /\ LaserVerifyCall =>
        LET rec == l_call["caller"] IN
        /\ rec.enabled => CountCmd(Drop(l_wire, rec.w0), <<76, 68, 79, 32, 49, 13>>) = rec.sets
        /\ rec.sets <= 3
        /\ Len(rec.obs) <= rec.sets
        /\ l_pc["caller"] = "idle" =>
            (l_ret["caller"] = "True" <=>
                \E i \in 1..Len(rec.obs) :
                    rec.obs[i].ok /\ rec.obs[i].text = (IF rec.enabled THEN <<49>> ELSE <<48>>))

\* C4 witness: enable_channel has returned failure after three set commands
\* and three observed values, none of them the expected one.
C4_Witness ==
    /\ MotorVerifyCall
    /\ callpc = "idle"
    /\ ret = "False"
    /\ call.sets = 3
    /\ Len(call.obs) = 3
    /\ CountCmd(wire, <<16, 2, 1, 1, 33, 1>>) = 3

\* C5: a set-and-verify call during which the driver was disconnected
\* returns failure, never success, and writes nothing after the disconnect;
\* for the motor also when the cached enabled flag equals the requested value.
C5_DisconnectFailsVerify ==
    /\ (MotorVerifyCall /\ call.cut) =>
        /\ call.late = 0
        /\ callpc = "idle" => ret = "False"
    /\ (LaserVerifyCall /\ l_call["caller"].cut) =>
        /\ l_call["caller"].late = 0
        /\ l_pc["caller"] = "idle" => l_ret["caller"] = "False"

\* The bytes w are whole commands of cmds one after another, the last one
\* possibly still being written.
RECURSIVE WholeCommands(_, _)
WholeCommands(w, cmds) ==
    \/ w = <<>>
    \/ \E c \in cmds :
        IF Len(w) >= Len(c)
        THEN SubSeq(w, 1, Len(c)) = c /\ WholeCommands(SubSeq(w, Len(c) + 1, Len(w)), cmds)
        ELSE w = SubSeq(c, 1, Len(w))

\* C6: on each device (motor, laser) at most one caller has begun and not
\* completed a write, and the bytes on the wire are whole commands one after another,
\* never the bytes of two commands interleaved.
C6_WritesSerialized ==
    /\ \A dev \in {"motor", "laser"} :
        Cardinality({t \in Writers : wr[t].dev = dev /\ wr[t].at > 0
                                          /\ wr[t].at < Len(wr[t].cmd)}) <= 1
    /\ WholeCommands(wire, {<<35, 2, 0, 0, 33, 1>>, <<101, 4, 1, 1, 34, 1>>})
    /\ WholeCommands(l_wire, {<<76, 68, 79, 32, 49, 13>>, <<76, 68, 79, 32, 48, 13>>})

\* A step of the receive pump: one more message dispatched.
PumpStep == rxlast'.n = rxlast.n + 1

\* C7: the channel state fields change only in a step of the receive pump;
\* no caller-side operation writes any of them.
C7_OnlyPumpWritesChannels == [][channels' # channels => PumpStep]_vars

\* Bit k of the status word a status update carries (bytes 17..20, 1-based).
MsgStatusBit(msg, k) == (msg[17 + (k \div 8)] \div Pow2(k % 8)) % 2 = 1

\* C8: in every reachable state of every channel, `moving' is true iff one of
\* the bits in-motion-forward (0x10), in-motion-reverse (0x20),
\* jogging-forward (0x40), jogging-reverse (0x80), homing (0x200) is set in
\* the stored raw status.
C8_MovingIffMotionBits ==
    \A n \in Channels :
        channels[n].moving <=> (\E k \in {4, 5, 6, 7, 9} : k \in channels[n].status_bits)

\* A finished get_channel_status call that returned a dictionary.
SnapshotReturned ==
    callpc = "idle" /\ call.name = "get_channel_status" /\ ret = "dict"

StatusUpdateStep ==
    /\ PumpStep
    /\ Len(rxlast'.msg) >= 20
    /\ rxlast'.msg[1] = 129 /\ rxlast'.msg[2] = 4      \* id 0x0481
    /\ rxlast'.msg[5] - 32 \in {1, 2, 3}

\* C10: after the pump processes a status update with raw status S for
\* channel n, the channel has homed, homing, enabled, error equal to the
\* HOMED, HOMING, MOTOR_ENABLED, MOTION_ERROR bits of S and raw status S; and
\* S = {HOMED, MOTOR_ENABLED} gives homed, enabled, not moving, no error, ready.
C10_StatusUpdateDecoded ==
    [][StatusUpdateStep =>
        LET msg == rxlast'.msg
            ch == channels'[msg[5] - 32]
        IN  /\ ch.homed = MsgStatusBit(msg, 10)
            /\ ch.homing = MsgStatusBit(msg, 9)
            /\ ch.enabled = MsgStatusBit(msg, 31)
            /\ ch.error = MsgStatusBit(msg, 14)
            /\ ch.status_bits = {k \in 0..31 : MsgStatusBit(msg, k)}
            /\ (SubSeq(msg, 17, 20) = <<0, 4, 0, 128>>) =>
                    (ch.homed /\ ch.enabled /\ ~ch.moving /\ ~ch.error /\ is_ready(ch))
    ]_vars

\* C10 witness: channel 1 after a status update with S = {HOMED,
\* MOTOR_ENABLED} that followed an earlier message.
C10_Witness ==
    /\ rxlast.n >= 2
    /\ Len(rxlast.msg) = 20
    /\ rxlast.msg[1] = 129 /\ rxlast.msg[2] = 4 /\ rxlast.msg[5] = 33
    /\ SubSeq(rxlast.msg, 17, 20) = <<0, 4, 0, 128>>
    /\ channels[1].status_bits = {10, 31}
    /\ channels[1].homed /\ channels[1].enabled /\ ~channels[1].moving

\* The message kinds whose handler looks at the destination byte.
ChannelScoped(msg) ==
    UnpackU16(msg, 1) \in {MGMSG_MOT_GET_STATUSUPDATE, MGMSG_MOT_MOVE_COMPLETED,
                           MGMSG_MOT_MOVE_HOMED, MGMSG_MOT_MOVE_STOPPED,
                           MGMSG_MOD_GET_CHANENABLESTATE}

\* C11: a channel-scoped message whose destination byte is none of 0x21,
\* 0x22, 0x23 changes no channel and invokes no callback; one whose
\* destination byte is 0x20 + n leaves every channel other than n as it was.
C11_UnknownChannelDiscarded ==
    [][PumpStep /\ ChannelScoped(rxlast'.msg) =>
        LET d == rxlast'.msg[5] IN
        /\ d \notin {33, 34, 35} => channels' = channels /\ invoked' = <<>>
        /\ \A n \in {1, 2, 3} :
            d = 32 + n => \A m \in {1, 2, 3} \ {n} : channels'[m] = channels[m]]_vars

\* A move-completed message for 0x24 was discarded while channel 1 was
\* moving and callbacks were registered.
C11_Witness ==
    /\ rxlast.n > 0
    /\ UnpackU16(rxlast.msg, 1) = MGMSG_MOT_MOVE_COMPLETED
    /\ rxlast.msg[5] = 36
    /\ channels[1].moving
    /\ move_complete_callbacks[1] # <<>>
    /\ invoked = <<>>

\* A completion message for a channel: its list of registered callbacks.
CompletionStep ==
    /\ PumpStep
    /\ UnpackU16(rxlast'.msg, 1) \in {MGMSG_MOT_MOVE_COMPLETED, MGMSG_MOT_MOVE_HOMED}
    /\ rxlast'.msg[5] \in {33, 34, 35}
CompletionList ==
    IF UnpackU16(rxlast'.msg, 1) = MGMSG_MOT_MOVE_COMPLETED
    THEN move_complete_callbacks[rxlast'.msg[5] - 32]
    ELSE home_complete_callbacks[rxlast'.msg[5] - 32]

\* C12: when a move-completed (home-completed) message for channel n is
\* processed, the calls made are exactly the callbacks registered for
\* (n, that kind), each once, with argument n, in registration order.
C12_CallbacksInRegistrationOrder ==
    [][CompletionStep =>
        invoked' = [i \in 1..Len(CompletionList) |->
                        [cb |-> CompletionList[i], arg |-> rxlast'.msg[5] - 32]]]_vars

\* C13: when one callback of the list raises, the callbacks registered after
\* it are still invoked: as many calls are made as callbacks are registered.
C13_CallbackExceptionIsolated ==
    [][CompletionStep /\ (\E i \in 1..Len(CompletionList) : CompletionList[i] = "cb_raise") =>
        Len(invoked') = Len(CompletionList)]_vars

\* The message has an id with a branch in _process_message.
Handled(msg) ==
    UnpackU16(msg, 1) \in {530, 128, 6, 1092, 1124, 1126, 1153}

\* C14: a frame with an unhandled id is removed from the buffer and the
\* frames after it are dispatched (once all bytes are read, the buffer is
\* empty and the messages dispatched are the frames sent); processing a
\* message with an unhandled id changes no channel and invokes no callback.
C14_UnknownIdSkipped ==
    /\ []((PumpQuiet /\ \E i \in 1..Len(sent) : ~Handled(sent[i])) =>
            buffer = <<>> /\ dispatched = sent)
    /\ [][PumpStep /\ ~Handled(rxlast'.msg) =>
            channels' = channels /\ invoked' = <<>> /\ ~rxerr']_vars

\* C15: while the buffer holds fewer than 6 bytes, or a status update at its
\* head with fewer than 20 bytes, no step dispatches a message, removes
\* bytes from the buffer or reports an error.
C15_ShortBufferWaits ==
    [][(\/ Len(buffer) < 6
        \/ Len(buffer) < 20 /\ UnpackU16(buffer, 1) = MGMSG_MOT_GET_STATUSUPDATE) =>
          /\ dispatched' = dispatched
          /\ Len(buffer') >= Len(buffer)
          /\ Take(buffer', Len(buffer)) = buffer
          /\ rxerr' = rxerr]_vars

\* The step is the laser operation `name', run from call to return.
LaserOpStep(name) == steps' = steps + 1 /\ l_call'["caller"].name = name

CachedPeriod ==
    IF l_cache.frequency_hz[2] = 1
    THEN 1000000000 \div l_cache.frequency_hz[1]
    ELSE l_cache.frequency_hz[2]

\* C17: after a set operation whose verification failed on every attempt,
\* the cached value of the setting is the value of the last response the
\* device gave to the verifying query.
C17_FailedSetKeepsObserved ==
    LET c == l_call["caller"] IN
    (/\ c.name \in {"set_laser_enable", "set_frequency_hz", "set_current_ma"}
     /\ c.exhausted
     /\ ParseInt(c.seen).ok) =>
        CASE c.name = "set_laser_enable" -> l_cache.laser_enabled = (c.seen = <<49>>)
          [] c.name = "set_frequency_hz" -> CachedPeriod = ParseInt(c.seen).value
          [] c.name = "set_current_ma" -> l_cache.current_ma = ParseInt(c.seen).value

\* C18: the cached laser state changes only in a step where a set-and-verify
\* succeeded or a query got a response that parses as a value of the
\* setting (0 or 1 for the enable state, an integer for the others).
C18_CacheChangesOnlyOnSuccess ==
    [][l_cache' # l_cache =>
        LET c == l_call'["caller"] IN
        \/ /\ c.name \in {"set_laser_enable", "set_frequency_hz", "set_current_ma"}
           /\ l_ret'["caller"] = "True"
        \/ c.name = "query_laser_enable" /\ c.seen \in {<<48>>, <<49>>}
        \/ c.name \in {"query_frequency_hz", "query_status"} /\ ParseInt(c.seen).ok]_vars

\* A call that entered its wait loop has returned.
WaitReturned == callpc = "idle" /\ call # NoCall /\ call.entered

\* C19: a call inside its wait loop returns; it returns True exactly when a
\* poll read the awaited condition (moving false; homed true and homing
\* false), which happens before the timeout has elapsed, and it returns
\* False only once the timeout has elapsed.
C19_BlockingWaitEnds ==
    /\ Waiting ~> callpc = "idle"
    /\ [](WaitReturned =>
            /\ (ret = "True") <=> call.sawdone
            /\ ret = "True" => call.elapsed < TimeoutTicks
            /\ ret = "False" => call.elapsed >= TimeoutTicks)

\* move_absolute(wait=True) polled at least twice, never read moving as
\* false and returned False at the timeout.
C19_Witness ==
    /\ WaitReturned
    /\ call.name = "move_absolute"
    /\ call.polls >= 2
    /\ ret = "False"

\* C20: a call during whose wait, before the timeout, the pump processed the
\* completion message of the awaited channel returns True.
C20_WaitSeesCompletion == (WaitReturned /\ call.completed) => ret = "True"

\* C21: at every moment at most one receive thread of the driver is running,
\* and exactly one is running whenever the driver reports itself connected.
C21_OnePumpPerConnection ==
    /\ Cardinality(RunningThreads) <= 1
    /\ is_connected => Cardinality(RunningThreads) = 1

\* C22: after disconnect has returned success and until the next connect, no
\* message is dispatched, no channel state changes and no callback is invoked.
C22_QuietAfterDisconnect ==
    [][(discpc = "done" /\ discpc' = "done")
        => (rxlast' = rxlast /\ channels' = channels /\ invoked' = invoked)]_vars

\* C23: a loop that repeats after a failure gives up after a fixed number of
\* attempts: a receive thread that has met more read errors in a row than the
\* retry bound of the drivers is not running any more.
C23_NoUnboundedRetry ==
    \A i \in 1..Len(rx_threads) :
        rx_threads[i].errors > Retries => rx_threads[i].pc = "exited"

\* A write on the open port failed inside identify, which returned False.
WriteFailedStep ==
    is_connected /\ steps' = steps + 1 /\ call'.name = "identify" /\ ret' = "False"

\* A receive thread caught an exception from the port.
ReadFailedStep ==
    /\ Len(rx_threads') = Len(rx_threads)
    /\ \E i \in 1..Len(rx_threads) : rx_threads'[i].errors = rx_threads[i].errors + 1

\* C24: after a write or a read on the serial line has failed the driver
\* does not report itself connected.
C24_TransportErrorFatal ==
    [][(WriteFailedStep \/ ReadFailedStep) => ~is_connected']_vars

\* C25: parse_header of a header built by build_header_only returns the same
\* id, destination and source, and a length field equal to p1 + 256 * p2, from
\* which both parameters are recovered.
C25_HeaderRoundTrip ==
    Decoded("build_header_only") =>
        /\ Len(wire) = HeaderLen
        /\ ret.msg_id = call.msg_id
        /\ ret.dest = call.dest
        /\ ret.source = call.source
        /\ ret.data_len = call.param1 + 256 * call.param2
        /\ ret.data_len % 256 = call.param1
        /\ ret.data_len \div 256 = call.param2

C25_Witness ==
    /\ Decoded("build_header_only")
    /\ call.msg_id = MGMSG_MOT_MOVE_HOMED
    /\ call.param1 = 255
    /\ call.param2 = 1
    /\ ret.data_len = 511
    /\ ret.dest = CHANNEL_1

\* C26: a payload encoded into a data-bearing frame and decoded by the
\* matching parser comes back unchanged: status update, position counter
\* (cmd_set_position_counter, parse_position_counter) and velocity parameters
\* (cmd_set_velocity_params, parse_velocity_params).
C26_PayloadRoundTrip ==
    /\ Decoded("status_update") =>
        /\ ret.ok
        /\ ret.channel = call.channel
        /\ ret.position = call.position
        /\ ret.enc_count = call.enc_count
        /\ ret.status = call.status
    /\ Decoded("cmd_set_position_counter") =>
        /\ ret.ok
        /\ ret.channel = 1
        /\ ret.position = position_to_apt(call.pos_mm)
    /\ Decoded("cmd_set_velocity_params") =>
        /\ ret.ok
        /\ ret.channel = 1
        /\ ret.min_vel = 0
        /\ ret.max_vel = velocity_to_apt(call.vel)
        /\ ret.accel = accel_to_apt(call.accel)

\* C27: for a positive frequency the period is round(1e9 / f), and that
\* period is the one in the LDF set command.
C27_PeriodIsRounded ==
    (call.name = "frequency_to_period_ns" /\ call.freq_hz > 0) =>
        /\ call.period.ok
        /\ call.period.period_ns = RoundDiv(NsPerSecond, call.freq_hz)
        /\ wire # <<>> => wire = build_command(LDF, <<call.period.period_ns>>)

\* C28: for 16667 <= f <= 125000 the period lies in 8000..60000 ns and the
\* frequency computed back from it is within the change half a nanosecond of
\* period makes: with T = 1e9 / f, between 1e9 / (T + 1/2) and 1e9 / (T - 1/2),
\* that is, the period (the denominator of the frequency) is within 1/2 of T.
C28_FrequencyRoundTrip ==
    (Decoded("frequency_to_period_ns") /\ call.freq_hz >= 16667 /\ call.freq_hz <= 125000) =>
        /\ ret.ok
        /\ ret.freq_hz[1] = NsPerSecond
        /\ RANGE_LDF_MIN <= ret.freq_hz[2] /\ ret.freq_hz[2] <= RANGE_LDF_MAX
        /\ LET d == ret.freq_hz[2] * call.freq_hz - NsPerSecond
           IN  2 * (IF d < 0 THEN 0 - d ELSE d) <= call.freq_hz

\* C30: the frame move_absolute builds for position p on channel n is a
\* data-bearing MOVE_ABSOLUTE frame to destination 0x21 + (n - 1) whose
\* 32-bit little-endian position is p * counts_per_mm, and the receive loop
\* maps that destination back to channel n.
C30_MoveAbsoluteEncoding ==
    Decoded("cmd_move_absolute") =>
        /\ Len(wire) = HeaderLen + 6
        /\ ret.header.msg_id = MGMSG_MOT_MOVE_ABSOLUTE
        /\ ret.header.data_len = 6
        /\ ret.header.dest = CHANNEL_1 + (call.ch - 1)
        /\ ret.channel = call.ch
        /\ ret.position * call.pos_mm[2] = call.pos_mm[1] * EncCnt

\* The last laser operation was a frequency query that was written and
\* answered with a positive whole number.
FrequencyAnswered ==
    LET c == l_call["caller"] IN
    /\ c.name = "query_frequency_hz"
    /\ ParseInt(c.seen).ok
    /\ ParseInt(c.seen).value > 0

\* C29: a frequency query answered with the period p returns the frequency
\* and caches it as 1e9 / p; for the reply 20000 that is 50000 Hz.
C29_QueryFrequencyReported ==
    FrequencyAnswered =>
        LET p == ParseInt(l_call["caller"].seen).value
            f == l_cache.frequency_hz
        IN  /\ l_ret["caller"] = "freq_hz"
            /\ f = <<NsPerSecond, p>>
            /\ p = 20000 => f[1] = 50000 * f[2]

C29_Witness ==
    /\ FrequencyAnswered
    /\ l_call["caller"].seen = Digits(20000)
    /\ l_ret["caller"] = "freq_hz"
    /\ l_cache.frequency_hz = <<1000000000, 20000>>
    /\ l_wire = cmd_query_frequency

\* What the instance s reports for every axis is what DEFAULT_SETTINGS
\* states: velocity 1.0, acceleration 5.0, trigger mode 0.
ReportsDefaults(s) ==
    \A a \in Axes :
        /\ NumEq(get_velocity(s, a), PyFloat(10))
        /\ NumEq(get_acceleration(s, a), PyFloat(50))
        /\ NumEq(get_trigger_mode(s, a), PyInt(0))

\* C31: an instance constructed on a settings file that does not exist
\* reports the defaults for every axis, whatever setters were called before
\* on other instances.
C31_MissingFileGivesDefaults ==
    [][\A p \in Paths :
          (Construct(p) /\ files[p].state = "absent") =>
              ReportsDefaults(stores[Len(stores)])']_vars

\* What the instance s reports is, number by number, what `kept' holds.
ReportsSaved(s, kept) ==
    \A a \in Axes :
        /\ NumEq(get_velocity(s, a), kept.velocity[a])
        /\ NumEq(get_acceleration(s, a), kept.acceleration[a])
        /\ \A k \in DOMAIN DefaultTrigger :
              NumEq(get_trigger_config(s, a)[k], kept.trigger[a][k])

\* C32: an instance constructed on a file a successful save wrote reports
\* the velocities, accelerations and trigger configurations that were saved.
C32_SaveLoadRoundTrip ==
    [][\A p \in Paths :
          (Construct(p) /\ files[p].state = "json") =>
              ReportsSaved(stores[Len(stores)], files[p].saved)']_vars

\* C32 witness: a second instance was constructed on a saved file that holds
\* a velocity of 1.5 and a trigger start position of 10.5, and reports them.
C32_Witness ==
    /\ Len(stores) = 2
    /\ files[stores[2].settings_file].state = "json"
    /\ files[stores[2].settings_file].saved.velocity["x_axis"] = PyFloat(15)
    /\ get_velocity(stores[2], "x_axis") = PyFloat(15)
    /\ steps = 4

\* C33: when a move-complete callback for channel n is invoked, moving of
\* channel n is already false; when a home-complete callback is invoked,
\* homed is already true and homing already false; and the pump dispatches
\* no other message before the callbacks of this one have run.
C33_UpdateBeforeNotify ==
    [][/\ (rxpc = "notify" /\ rxpc' = "poll") =>
            \A i \in 1..Len(invoked') :
                LET n == invoked'[i].arg
                    id == parse_header(rxlast.msg).msg_id
                IN  /\ id = MGMSG_MOT_MOVE_COMPLETED => ~channels[n].moving
                    /\ id = MGMSG_MOT_MOVE_HOMED =>
                            channels[n].homed /\ ~channels[n].homing
       /\ rxpc = "notify" => rxlast' = rxlast
      ]_vars

\* C34: a motion call made with wait=True returns success only when the
\* controller has finished the commanded move or homing: it has read the
\* command, the channel is at rest and, for a homing, homed.
C34_WaitMeansFinished ==
    (callpc = "idle" /\ call.name \in {"home_channel", "move_absolute", "move_relative"}
        /\ call.entered /\ ret = "True") =>
        /\ DeviceAtRest(call.ch)
        /\ call.name = "home_channel" => device.homed[call.ch]

\* A caller operation named in `names' begins and ends in this step.
CallerStep(names) ==
    /\ callpc = "idle" /\ callpc' = "idle"
    /\ steps' = steps + 1
    /\ rxlast' = rxlast
    /\ call'.name \in names

\* C35: when home_channel, move_absolute or move_relative returns failure
\* because its command could not be written, the moving, homing and homed
\* flags of the channel are what they were before the call.
C35_FailedWriteKeepsFlags ==
    [][(/\ CallerStep({"home_channel", "move_absolute", "move_relative"})
        /\ ret' = "False"
        /\ call'.ch \in Channels
        /\ call'.name = "home_channel" \/ is_ready(channels[call'.ch]))
       => LET before == channels[call'.ch]
              after == channels'[call'.ch]
          IN  /\ after.moving = before.moving
              /\ after.homing = before.homing
              /\ after.homed = before.homed]_vars

\* C36: a move_absolute or move_relative call writes its frame only if the
\* channel is enabled, homed and without error when it is called; on a
\* channel that is not, the call returns failure, writes nothing and leaves
\* every channel as it was.
C36_MoveOnlyWhenReady ==
    [][CallerStep({"move_absolute", "move_relative"}) =>
        LET c == call'.ch
            ready == /\ c \in Channels
                     /\ channels[c].enabled /\ channels[c].homed /\ ~channels[c].error
        IN  /\ wire' # wire => ready
            /\ ~ready => (ret' = "False" /\ wire' = wire /\ channels' = channels)]_vars

\* C36 witness: a move on a ready channel wrote its frame, which is the last
\* one on the line.
C36_Witness ==
    /\ callpc = "idle"
    /\ call.name = "move_absolute"
    /\ ret = "True"
    /\ channels[call.ch].enabled /\ channels[call.ch].homed /\ ~channels[call.ch].error
    /\ Len(wire) >= HeaderLen + 6
    /\ parse_header(Drop(wire, Len(wire) - (HeaderLen + 6))).msg_id = MGMSG_MOT_MOVE_ABSOLUTE

\* C37: a channel-scoped motor operation called with a channel number
\* outside 1..3 returns failure, writes nothing and changes no channel;
\* only stop(0) is different, which writes a stop frame for each of the
\* channels 1, 2, 3 when all three writes succeed.
C37_BadChannelRejected ==
    [][(/\ CallerStep({"identify", "home_channel", "move_absolute", "move_relative", "stop",
                      "set_velocity_params", "request_status_update"})
        /\ call'.ch \notin Channels)
       => IF call'.name = "stop" /\ call'.ch = 0
          THEN ret' = "True" =>
                 wire' = wire \o cmd_move_stop(1, TRUE) \o cmd_move_stop(2, TRUE)
                              \o cmd_move_stop(3, TRUE)
          ELSE ret' = "False" /\ wire' = wire /\ channels' = channels]_vars

\* A thread is between the first byte of its query and the end of its read.
InExchange(t) ==
    /\ wr[t].pc \in {"qwrite", "read"}
    /\ wr[t].pc = "qwrite" => wr[t].at > 0

\* A thread is at a statement that writes to or reads from the port.
AtPort(t) == wr[t].pc \in {"write", "qwrite", "read"}

\* C38: a laser query is one atomic exchange: while one thread is between
\* writing its query and having read the reply, no other thread is writing
\* to or reading from the port, and every query that returns a reply
\* returns the reply to its own command.
C38_QueryIsOneExchange ==
    \A t \in Writers :
        /\ InExchange(t) => \A u \in Writers \ {t} : ~AtPort(u)
        /\ (wr[t].pc \in {"unlock", "idle"} /\ wr[t].dev = "laser" /\ "response" \in DOMAIN wr[t]
            /\ wr[t].response.ok)
           => wr[t].response.for = wr[t].own

\* The laser takes the command cmd off its line in this step.
LaserTakes(cmd) ==
    /\ device'.l_read > device.l_read
    /\ SubSeq(l_wire, device.l_read + 1, device'.l_read) = cmd

\* C39: the restore-factory-settings command reaches the laser only while
\* its emission is disabled: whenever the laser takes HPR off its line,
\* after any set_laser_enable calls, verified or not, its enable state is off.
C39_RestoreOnlyWhenOff ==
    [][LaserTakes(cmd_restore_factory) => ~device.laser_on]_vars

\* The home commands of the channels in S, in channel order.
HomeCmds(S) ==
    (IF 1 \in S THEN cmd_move_home(1) ELSE <<>>)
    \o (IF 2 \in S THEN cmd_move_home(2) ELSE <<>>)
    \o (IF 3 \in S THEN cmd_move_home(3) ELSE <<>>)

\* home_all_channels(wait=True) takes this step: the call, or its return.
HomeAllCalled == callpc = "idle" /\ callpc' = "w_time" /\ call'.name = "home_all_channels"
HomeAllReturns == callpc \in {"w_time", "w_poll"} /\ callpc' = "idle"
                  /\ call'.name = "home_all_channels"

\* C40: home_all_channels writes a home command for the channels enabled at
\* the call and for no other; with wait=True it returns True only if a
\* homing was started and every enabled channel is homed and no longer
\* homing, and it returns False once the timeout has elapsed.
C40_HomeAllWaits ==
    [][/\ HomeAllCalled =>
            /\ call'.started \subseteq {c \in Channels : channels[c].enabled}
            /\ wire' = wire \o HomeCmds(call'.started)
       /\ (HomeAllReturns /\ ret' = "True") =>
            /\ call'.started # {}
            /\ \A c \in Channels :
                    channels[c].enabled => channels[c].homed /\ ~channels[c].homing
       /\ (HomeAllReturns /\ call.elapsed >= TimeoutTicks /\ callpc = "w_time") =>
            ret' = "False"]_vars

====
